---- MODULE Spec2Model ----
(***************************************************************************)
(* Course management backend (NeroQue/CMS): the persisted course tree,    *)
(* the per-user progress rows, the progress aggregation of                *)
(* CourseService and the directory importer of CourseParser.              *)
(***************************************************************************)
EXTENDS Integers, Sequences, FiniteSets, TLC

VARIABLES
    fs,             \* the listing of the courses directory
    basePath,       \* CourseParser.BasePath, util.GetCoursesDirectory()
    faults,         \* the queries the storage fails, as <<query, key>>
    courses,        \* table courses
    modules,        \* table modules
    content_items,  \* table content_items
    user_progress,  \* table user_progress
    profiles,       \* table profiles
    nextProfile,    \* number of profile ids handed out so far (uuid.New is fresh)
    sessions,       \* table sessions
    nextSession,    \* number of session ids handed out so far
    currentSession, \* session.store.currentSession, the cached session
    calls,          \* the calls of the session store on their way
    nextCourse,     \* number of course ids handed out so far (uuid.New is fresh)
    clock,          \* wall clock, read by time.Now() in the progress writes
    last,           \* the last service call: its name, arguments and result
    tasks,          \* task.manager.tasks, the registry of background tasks
    jobs,           \* the goroutines started by BatchImport, by task id
    reader          \* a TaskHandler.GetTask request on its way

envVars == <<fs, basePath, faults>>

taskVars == <<tasks, jobs, reader>>

sessionVars == <<sessions, nextSession, currentSession, calls>>

accountVars == <<profiles, nextProfile, sessions, nextSession, currentSession, calls>>

\* No task status request is on its way.
NoReader == [pc |-> "idle"]

vars == <<fs, basePath, faults, courses, modules, content_items, user_progress, profiles,
          nextProfile, sessions, nextSession, currentSession, calls, nextCourse, clock, last, tasks, jobs, reader>>

(***************************************************************************)
(* Bounds of the model.                                                    *)
(***************************************************************************)
MaxUsers == 2
MaxCourses == 1
MaxModules == 2
MaxItems == 2
MaxClock == 2

Users == 1..MaxUsers

\* uuid.Nil, the id of no profile.
NoUser == 0

\* store.currentSession = nil.
NoSession == [id |-> 0, user_id |-> NoUser]

\* At most MaxCalls calls of the session store run at a time; a call that is
\* not running is IdleCall.
MaxCalls == 2
IdleCall == [pc |-> "idle"]
NoCalls == [k \in 0..MaxCalls |-> IdleCall]

\* The <<progress_pct, last_position>> arguments of the progress writes:
\* halfway at playback position 5, and finished (the completion threshold)
\* with no position given.
ProgressInputs == {<<50, 5>>, <<100, 0>>}

(***************************************************************************)
(* float32 arithmetic.  A float32 is [m, e] with value m * 2^e, m = 0 or   *)
(* 2^23 <= m < 2^24 (24 significant bits); results round to nearest, ties  *)
(* to even, as the Go float32 operators do.                                *)
(***************************************************************************)
F32Hidden == 2^23
F32Limit == 2^24

\* The float32 nearest to (n / d) * 2^e, for integers n >= 0, d > 0.
RECURSIVE F32Round(_, _, _)
F32Round(n, d, e) ==
    IF n = 0 THEN [m |-> 0, e |-> 0]
    ELSE IF n \div d >= F32Limit THEN F32Round(n, 2 * d, e + 1)
    ELSE IF n \div d < F32Hidden THEN F32Round(2 * n, d, e - 1)
    ELSE LET q == n \div d
             r == n % d
             up == (2 * r > d) \/ (2 * r = d /\ q % 2 = 1)
             m == IF up THEN q + 1 ELSE q
         IN IF m = F32Limit THEN [m |-> F32Hidden, e |-> e + 1]
                            ELSE [m |-> m, e |-> e]

\* float32(k) of a small non-negative int k (exact).
F32FromInt(k) == F32Round(k, 1, 0)

\* x / y for float32 values holding the small ints a and b, b > 0.
F32DivInts(a, b) == F32Round(a, b, 0)

\* x * k for a float32 x and a small int constant k.
F32MulInt(x, k) == F32Round(x.m * k, 1, x.e)

(***************************************************************************)
(* sql.NullInt32 / sql.NullTime / *time.Time: a value that may be absent.  *)
(***************************************************************************)
Null == [Valid |-> FALSE, V |-> 0]
NotNull(v) == [Valid |-> TRUE, V |-> v]

(***************************************************************************)
(* Generic helpers.                                                        *)
(***************************************************************************)
\* ORDER BY "order" ASC: the rows as a sequence, ascending by their order
\* column.  Rows of equal order come in an order the database chooses.
RECURSIVE ByOrderAsc(_)
ByOrderAsc(rows) ==
    IF rows = {} THEN <<>>
    ELSE LET first == CHOOSE r \in rows : \A o \in rows : r.order <= o.order
         IN <<first>> \o ByOrderAsc(rows \ {first})

\* ORDER BY created_at DESC.
RECURSIVE ByCreatedDesc(_)
ByCreatedDesc(rows) ==
    IF rows = {} THEN <<>>
    ELSE LET first == CHOOSE r \in rows : \A o \in rows : r.created_at >= o.created_at
         IN <<first>> \o ByCreatedDesc(rows \ {first})

(***************************************************************************)
(* The queries of the persistence layer (sqlc).                            *)
(***************************************************************************)
\* The storage fails the read query with this key: the query returns an
\* error that is not sql.ErrNoRows.
Fails(query, key) == <<query, key>> \in faults

\* The key of a query without arguments.
NoKey == 0

\* SELECT * FROM courses ORDER BY created_at DESC
ListCourses == ByCreatedDesc(courses)

\* SELECT * FROM modules WHERE course_id = $1 ORDER BY "order" ASC
ListModulesByCourse(courseID) ==
    ByOrderAsc({m \in modules : m.course_id = courseID})

\* SELECT * FROM content_items WHERE module_id = $1 ORDER BY "order" ASC
ListContentItemsByModule(moduleID) ==
    ByOrderAsc({c \in content_items : c.module_id = moduleID})

\* Mutation: the lookup forgets the user and finds the rows of any user.
GetUserProgressByContentItemAnyUser(userID, contentItemID) ==
    {p \in user_progress : p.content_item_id = contentItemID}

\* SELECT * FROM user_progress WHERE user_id = $1 AND content_item_id = $2
\* (:one): the rows found; sqlc returns the first one, or sql.ErrNoRows.  A
\* query the storage fails delivers no row either, and an error.
GetUserProgressByContentItem(userID, contentItemID) ==
    IF Fails("GetUserProgressByContentItem", contentItemID)
    THEN {}
    ELSE {p \in user_progress : /\ p.user_id = userID
                                /\ p.content_item_id = contentItemID}

\* Mutation: a plain INSERT, without the ON CONFLICT clause and the UNIQUE
\* constraint behind it.
UpsertUserProgressInsertOnly(params, now) ==
    user_progress \cup
      {[user_id |-> params.UserID,
        content_item_id |-> params.ContentItemID,
        completed |-> params.Completed,
        progress_pct |-> params.ProgressPct,
        last_position |-> params.LastPosition,
        last_accessed |-> params.LastAccessed,
        created_at |-> now,
        updated_at |-> now]}

\* Mutation: the update merges: a completed row stays completed and a
\* stored position is kept when the call gives none.
UpsertUserProgressMerging(params, now) ==
    {p \in user_progress : \/ p.user_id # params.UserID
                           \/ p.content_item_id # params.ContentItemID}
    \cup
    (IF \E p \in user_progress : /\ p.user_id = params.UserID
                                 /\ p.content_item_id = params.ContentItemID
     THEN {[p EXCEPT !.completed = p.completed \/ params.Completed,
                     !.progress_pct = params.ProgressPct,
                     !.last_position = IF params.LastPosition.Valid
                                       THEN params.LastPosition
                                       ELSE p.last_position,
                     !.last_accessed = params.LastAccessed,
                     !.updated_at = now] :
              p \in {q \in user_progress : /\ q.user_id = params.UserID
                                           /\ q.content_item_id = params.ContentItemID}}
     ELSE {[user_id |-> params.UserID,
            content_item_id |-> params.ContentItemID,
            completed |-> params.Completed,
            progress_pct |-> params.ProgressPct,
            last_position |-> params.LastPosition,
            last_accessed |-> params.LastAccessed,
            created_at |-> now,
            updated_at |-> now]})

\* INSERT INTO user_progress ... ON CONFLICT (user_id, content_item_id)
\* DO UPDATE SET completed, progress_pct, last_position, last_accessed,
\* updated_at: the table after the statement, run at time now.
UpsertUserProgress(params, now) ==
    LET conflict == {p \in user_progress : /\ p.user_id = params.UserID
                                           /\ p.content_item_id = params.ContentItemID}
    IN IF conflict = {}
       THEN user_progress \cup
              {[user_id |-> params.UserID,
                content_item_id |-> params.ContentItemID,
                completed |-> params.Completed,
                progress_pct |-> params.ProgressPct,
                last_position |-> params.LastPosition,
                last_accessed |-> params.LastAccessed,
                created_at |-> now,
                updated_at |-> now]}
       ELSE (user_progress \ conflict) \cup
              {[p EXCEPT !.completed = params.Completed,
                         !.progress_pct = params.ProgressPct,
                         !.last_position = params.LastPosition,
                         !.last_accessed = params.LastAccessed,
                         !.updated_at = now] : p \in conflict}

\* DELETE FROM courses WHERE id = $1, with the ON DELETE CASCADE of
\* modules.course_id, content_items.module_id and
\* user_progress.content_item_id.
ModulesOfCourse(courseID) == {m \in modules : m.course_id = courseID}
ItemsOfModules(ms) == {c \in content_items : \E m \in ms : c.module_id = m.id}

(***************************************************************************)
(* The filesystem below the parser's base path.  A directory entry is      *)
(* [name, isDir, readable, entries]; entries is what os.ReadDir returns    *)
(* for a readable directory: its entries sorted by name.                    *)
(***************************************************************************)
EntryNames == <<"a", "b", "c", "d", "e", "f", "g", "h">>

Absent == [name |-> "", isDir |-> FALSE, readable |-> FALSE, entries |-> <<>>]
File(name) == [name |-> name, isDir |-> FALSE, readable |-> TRUE, entries |-> <<>>]
Dir(name, readable, entries) ==
    [name |-> name, isDir |-> TRUE, readable |-> readable, entries |-> entries]

\* The number of entries at and below an entry.
RECURSIVE EntryCount(_)
RECURSIVE ListingCount(_, _)
ListingCount(entries, i) ==
    IF i > Len(entries) THEN 0
    ELSE EntryCount(entries[i]) + ListingCount(entries, i + 1)
EntryCount(entry) == 1 + ListingCount(entry.entries, 1)

\* The listings of a directory with at most n entries at and below its
\* entries, the i-th entry named EntryNames[i]: an entry is a file, an
\* unreadable directory or a readable directory with a listing of its own.
RECURSIVE Listings(_)
RECURSIVE ListingsFrom(_, _)
EntryOptions(n, i) ==
    {File(EntryNames[i]), Dir(EntryNames[i], FALSE, <<>>)} \cup
    {Dir(EntryNames[i], TRUE, l) : l \in Listings(n - 1)}
ListingsFrom(n, i) ==
    IF n = 0 THEN {<<>>}
    ELSE {<<>>} \cup
         UNION {{<<e>> \o r : r \in ListingsFrom(n - EntryCount(e), i + 1)} :
                e \in EntryOptions(n, i)}
Listings(n) == ListingsFrom(n, 1)

(***************************************************************************)
(* Paths.  A path string is the sequence of its elements, an absolute path *)
(* starting with the element "/": "/courses/go" is <<"/", "courses",       *)
(* "go">>, "../courses/go" is <<"..", "courses", "go">>, "go" is <<"go">>, *)
(* "." is <<".">> and the empty string is <<>>.  The server runs in Cwd    *)
(* (WORKDIR /app), the parser's BasePath is basePath, and the filesystem   *)
(* holds the courses directory, with the listing fs, where basePath leads. *)
(***************************************************************************)
Cwd == <<"/", "app">>

\* filepath.IsAbs(path)
IsAbs(path) == path # <<>> /\ path[1] = "/"

\* filepath.Clean(path): "." elements are dropped, an inner ".." removes the
\* element before it, a ".." at the root is dropped, the empty path is ".".
RECURSIVE CleanFrom(_, _, _)
CleanFrom(path, i, out) ==
    IF i > Len(path) THEN out
    ELSE IF path[i] = "." THEN CleanFrom(path, i + 1, out)
    ELSE IF path[i] # ".." THEN CleanFrom(path, i + 1, Append(out, path[i]))
    ELSE IF out = <<>> \/ out[Len(out)] = ".."
         THEN CleanFrom(path, i + 1, Append(out, ".."))
    ELSE IF out[Len(out)] = "/" THEN CleanFrom(path, i + 1, out)
    ELSE CleanFrom(path, i + 1, SubSeq(out, 1, Len(out) - 1))

Clean(path) ==
    IF CleanFrom(path, 1, <<>>) = <<>> THEN <<".">> ELSE CleanFrom(path, 1, <<>>)

\* filepath.Join(a, b): the elements of both, separated, then cleaned.
Join(a, b) == Clean(a \o (IF IsAbs(b) THEN Tail(b) ELSE b))

\* strings.HasPrefix(path, "/courses/")
HasCoursesPrefix(path) ==
    Len(path) >= 3 /\ path[1] = "/" /\ path[2] = "courses"

\* The number of leading elements two paths share.
RECURSIVE CommonPrefix(_, _, _)
CommonPrefix(a, b, n) ==
    IF n < Len(a) /\ n < Len(b) /\ a[n + 1] = b[n + 1]
    THEN CommonPrefix(a, b, n + 1)
    ELSE n

\* filepath.Rel(base, targ): [err, path].  It fails when one path is absolute
\* and the other is not, and when base keeps a ".." after the shared prefix.
RelFrom(base, targ, n) ==
    IF \E k \in (n + 1)..Len(base) : base[k] = ".."
    THEN [err |-> TRUE, path |-> <<>>]
    ELSE [err |-> FALSE,
          path |-> Clean([k \in 1..(Len(base) - n) |-> ".."]
                         \o SubSeq(targ, n + 1, Len(targ)))]

RelClean(base, targ) ==
    IF IsAbs(base) # IsAbs(targ)
    THEN [err |-> TRUE, path |-> <<>>]
    ELSE RelFrom(base, targ, CommonPrefix(base, targ, 0))

Rel(base, targ) ==
    RelClean(IF Clean(base) = <<".">> THEN <<>> ELSE Clean(base),
             IF Clean(targ) = <<".">> THEN <<>> ELSE Clean(targ))

\* The absolute path a path names for a process running in Cwd.
Locate(path) == IF IsAbs(path) THEN Clean(path) ELSE Clean(Cwd \o path)

\* os.Stat(path) below a listing: the entry the names of path lead to,
\* Absent when there is none.
RECURSIVE StatIn(_, _)
StatIn(entries, path) ==
    LET hits == {k \in 1..Len(entries) : entries[k].name = path[1]}
    IN IF hits = {} THEN Absent
       ELSE LET entry == entries[CHOOSE k \in hits : TRUE]
            IN IF Len(path) = 1 THEN entry
               ELSE IF entry.isDir /\ entry.readable
                    THEN StatIn(entry.entries, Tail(path))
                    ELSE Absent

\* os.Stat(path): the courses directory is the only thing the filesystem
\* holds of what the service asks for.
StatAt(abs, mount) ==
    IF Len(abs) < Len(mount) \/ SubSeq(abs, 1, Len(mount)) # mount THEN Absent
    ELSE IF Len(abs) = Len(mount) THEN Dir(mount[Len(mount)], TRUE, fs)
    ELSE StatIn(fs, SubSeq(abs, Len(mount) + 1, Len(abs)))

Stat(path) == StatAt(Locate(path), Locate(basePath))

\* filepath.Base(path)
Base(path) == path[Len(path)]

\* filepath.Rel(p.BasePath, path), and path itself when Rel fails.
RelativeToBase(path) ==
    IF Rel(basePath, path).err THEN path ELSE Rel(basePath, path).path

(***************************************************************************)
(* CourseParser.  Of a content item the model keeps the title, the path    *)
(* and the order; the description, size and content type are carried      *)
(* along by the code and read by none of the operations modelled.          *)
(***************************************************************************)
\* Mutation: the scan does not descend into subdirectories.
RECURSIVE ScanEntriesTopLevelOnly(_, _, _)
ScanEntriesTopLevelOnly(entries, modulePath, i) ==
    IF i > Len(entries) THEN <<>>
    ELSE (IF entries[i].isDir
          THEN <<>>
          ELSE <<[Title |-> entries[i].name,
                  RelativePath |-> RelativeToBase(Append(modulePath, entries[i].name)),
                  Order |-> i - 1]>>)
         \o ScanEntriesTopLevelOnly(entries, modulePath, i + 1)

\* scanModuleForContentRecursive(modulePath): [err, items].  ReadDir of an
\* unreadable directory is the error; a subdirectory that cannot be
\* scanned is passed over; a file becomes a content item whose Order is its
\* index i in the listing it was found in.
RECURSIVE scanModuleForContentRecursive(_, _)
RECURSIVE ScanEntries(_, _, _)
ScanEntries(entries, modulePath, i) ==
    IF i > Len(entries) THEN <<>>
    ELSE LET entry == entries[i]
             entryPath == Append(modulePath, entry.name)
             sub == scanModuleForContentRecursive(entry, entryPath)
             found == IF entry.isDir
                      THEN IF sub.err THEN <<>> ELSE sub.items
                      ELSE <<[Title |-> entry.name,
                              RelativePath |-> RelativeToBase(entryPath),
                              Order |-> i - 1]>>
         IN found \o ScanEntries(entries, modulePath, i + 1)
\* Mutation: a directory that cannot be read, at any depth, fails the scan
\* of the whole module.
RECURSIVE HasUnreadable(_)
HasUnreadable(entry) ==
    entry.isDir /\ (\/ ~entry.readable
                    \/ \E k \in 1..Len(entry.entries) : HasUnreadable(entry.entries[k]))
scanModuleForContentRecursiveAllOrNothing(dir, modulePath) ==
    IF HasUnreadable(dir)
    THEN [err |-> TRUE, items |-> <<>>]
    ELSE [err |-> FALSE, items |-> ScanEntries(dir.entries, modulePath, 1)]

scanModuleForContentRecursive(dir, modulePath) ==
    IF ~dir.readable
    THEN [err |-> TRUE, items |-> <<>>]
    ELSE [err |-> FALSE, items |-> ScanEntries(dir.entries, modulePath, 1)]

\* The module scanCourseFolder builds for the immediate subdirectory entry:
\* it is kept, without content items, when its scan fails.
SubdirectoryModule(entry, folderPath) ==
    LET modulePath == Append(folderPath, entry.name)
        scan == scanModuleForContentRecursive(entry, modulePath)
    IN [Title |-> entry.name, RelativePath |-> RelativeToBase(modulePath),
        Order |-> 0,
        ContentItems |-> IF scan.err THEN <<>> ELSE scan.items]

\* Mutation: a subdirectory whose scan fails gets no module.
RECURSIVE SubdirectoryModulesScannedOnly(_, _, _)
SubdirectoryModulesScannedOnly(entries, folderPath, i) ==
    IF i > Len(entries) THEN <<>>
    ELSE (IF entries[i].isDir /\ entries[i].readable
          THEN <<SubdirectoryModule(entries[i], folderPath)>>
          ELSE <<>>) \o SubdirectoryModulesScannedOnly(entries, folderPath, i + 1)

\* The first loop of scanCourseFolder from entry i on: one module per
\* immediate subdirectory.
RECURSIVE SubdirectoryModules(_, _, _)
SubdirectoryModules(entries, folderPath, i) ==
    IF i > Len(entries) THEN <<>>
    ELSE (IF entries[i].isDir
          THEN <<SubdirectoryModule(entries[i], folderPath)>>
          ELSE <<>>) \o SubdirectoryModules(entries, folderPath, i + 1)

\* Mutation: no "Main Content" module for a folder without subdirectories.
scanCourseFolderSubdirectoriesOnly(dir, folderPath) ==
    IF ~dir.readable
    THEN [err |-> TRUE, modules |-> <<>>]
    ELSE [err |-> FALSE,
          modules |-> SubdirectoryModules(dir.entries, folderPath, 1)]

\* scanCourseFolder(folderPath): [err, modules].  Without a subdirectory the
\* files of the folder form the single module "Main Content".
scanCourseFolder(dir, folderPath) ==
    IF ~dir.readable
    THEN [err |-> TRUE, modules |-> <<>>]
    ELSE LET found == SubdirectoryModules(dir.entries, folderPath, 1)
             scan == scanModuleForContentRecursive(dir, folderPath)
         IN IF Len(found) = 0
            THEN IF scan.err
                 THEN [err |-> TRUE, modules |-> <<>>]
                 ELSE [err |-> FALSE,
                       modules |-> <<[Title |-> "Main Content",
                                      RelativePath |-> <<Base(folderPath)>>,
                                      Order |-> 0,
                                      ContentItems |-> scan.items]>>]
            ELSE [err |-> FALSE, modules |-> found]

\* ParseCourseFolder(folderPath): [err, course].
ParseCourseFolder(folderPath) ==
    LET info == Stat(folderPath)
        scan == scanCourseFolder(info, folderPath)
    IN IF info = Absent THEN [err |-> "error accessing course folder"]
       ELSE IF ~info.isDir THEN [err |-> "specified path is not a directory"]
       ELSE IF scan.err THEN [err |-> "error reading course directory"]
       ELSE [err |-> "",
             course |-> [Title |-> Base(folderPath),
                         Description |-> "Course located at",
                         RelativePath |-> RelativeToBase(folderPath),
                         CreatorID |-> NoUser,
                         Modules |-> scan.modules]]

(***************************************************************************)
(* CourseService: course creation, lookup and deletion.                    *)
(* An in-memory models.Course is [Title, RelativePath, Modules], a module  *)
(* [Title, RelativePath, Order, ContentItems], a content item [Title,      *)
(* RelativePath, Order].  Ids come from uuid.New(): the course id is the   *)
(* next unused number, module and item ids are built from it.              *)
(***************************************************************************)
ModuleID(courseID, i) == <<courseID, i>>
ContentItemID(courseID, i, j) == <<courseID, i, j>>

\* The module rows CreateCourse inserts: module.Order = i, the index of the
\* module in course.Modules.
NewModuleRows(course, courseID) ==
    {[id |-> ModuleID(courseID, i),
      course_id |-> courseID,
      title |-> course.Modules[i].Title,
      relative_path |-> course.Modules[i].RelativePath,
      order |-> i - 1] : i \in 1..Len(course.Modules)}

\* The content item rows CreateCourse inserts: item.Order = j, the index of
\* the item in module.ContentItems.
NewContentItemRows(course, courseID) ==
    UNION {{[id |-> ContentItemID(courseID, i, j),
             module_id |-> ModuleID(courseID, i),
             title |-> course.Modules[i].ContentItems[j].Title,
             relative_path |-> course.Modules[i].ContentItems[j].RelativePath,
             order |-> j - 1] : j \in 1..Len(course.Modules[i].ContentItems)}
           : i \in 1..Len(course.Modules)}

\* GetContentItemsByModule: the module's items as models.ContentItem values.
GetContentItemsByModule(moduleID) ==
    LET rows == ListContentItemsByModule(moduleID)
    IN [k \in 1..Len(rows) |->
          [ID |-> rows[k].id, ModuleID |-> rows[k].module_id, Title |-> rows[k].title,
           RelativePath |-> rows[k].relative_path, Order |-> rows[k].order]]

\* GetModulesByCourse: the course's modules, without their content items.
GetModulesByCourse(courseID) ==
    LET rows == ListModulesByCourse(courseID)
    IN [k \in 1..Len(rows) |->
          [ID |-> rows[k].id, CourseID |-> rows[k].course_id, Title |-> rows[k].title,
           RelativePath |-> rows[k].relative_path, Order |-> rows[k].order]]

\* A sql.NullString as the column keeps it: the driver writes NULL for a
\* value whose Valid is false, whatever its String, and NULL is read back as
\* the empty String with Valid false.
StoredNullString(ns) ==
    IF ns.Valid THEN ns ELSE [String |-> "", Valid |-> FALSE]

\* GetCourse: the course with its modules and their content items, read in
\* the tables cs, ms and is.
GetCourseIn(cs, ms, is, id) ==
    LET dbCourse == CHOOSE c \in cs : c.id = id
        mrows == ByOrderAsc({m \in ms : m.course_id = id})
        irows(moduleID) == ByOrderAsc({c \in is : c.module_id = moduleID})
    IN [ID |-> dbCourse.id, Title |-> dbCourse.title,
        Description |-> dbCourse.description.String,
        RelativePath |-> dbCourse.relative_path,
        CreatorID |-> dbCourse.creator_id,
        Modules |-> [k \in 1..Len(mrows) |->
            [ID |-> mrows[k].id, CourseID |-> mrows[k].course_id,
             Title |-> mrows[k].title, RelativePath |-> mrows[k].relative_path,
             Order |-> mrows[k].order,
             ContentItems |-> [n \in 1..Len(irows(mrows[k].id)) |->
                 [ID |-> irows(mrows[k].id)[n].id,
                  ModuleID |-> irows(mrows[k].id)[n].module_id,
                  Title |-> irows(mrows[k].id)[n].title,
                  RelativePath |-> irows(mrows[k].id)[n].relative_path,
                  Order |-> irows(mrows[k].id)[n].order]]]]]

GetCourse(id) == GetCourseIn(courses, modules, content_items, id)

\* The error of GetCourse(id) over the tables cs and ms: of the course query,
\* of the query of its modules, or of the query of the content items of one
\* of them.
GetCourseErrIn(cs, ms, id) ==
    IF Fails("GetCourse", id) THEN "error retrieving course"
    ELSE IF \A c \in cs : c.id # id THEN "course not found"
    ELSE IF Fails("ListModulesByCourse", id) THEN "error retrieving modules"
    ELSE IF \E m \in ms : /\ m.course_id = id
                          /\ Fails("ListContentItemsByModule", m.id)
    THEN "error retrieving content items"
    ELSE ""

\* The inserts of CreateCourse after the course row, as <<i, 0>> for module i
\* and <<i, j>> for item j of module i, in the order of the two loops.
NoFailure == <<0, 0>>

InsertBefore(p, q) == p[1] < q[1] \/ (p[1] = q[1] /\ p[2] < q[2])

CreateFailures(course, courseID) ==
    {<<i, 0>> : i \in {k \in 1..Len(course.Modules) :
                         Fails("CreateModule", ModuleID(courseID, k))}}
    \cup UNION {{<<i, j>> : j \in {n \in 1..Len(course.Modules[i].ContentItems) :
                                     Fails("CreateContentItem",
                                           ContentItemID(courseID, i, n))}}
                : i \in 1..Len(course.Modules)}

\* The insert at which CreateCourse returns its error: the first that fails.
FirstFailure(course, courseID) ==
    IF CreateFailures(course, courseID) = {} THEN NoFailure
    ELSE CHOOSE p \in CreateFailures(course, courseID) :
            \A q \in CreateFailures(course, courseID) : p = q \/ InsertBefore(p, q)

\* The rows inserted when CreateCourse returns at the insert `at`.
InsertedModuleRows(course, courseID, at) ==
    {r \in NewModuleRows(course, courseID) :
        at = NoFailure \/ InsertBefore(<<r.id[2], 0>>, at)}

InsertedContentItemRows(course, courseID, at) ==
    {r \in NewContentItemRows(course, courseID) :
        at = NoFailure \/ InsertBefore(<<r.id[2], r.id[3]>>, at)}

\* Mutation: the inserts of CreateCourse are one transaction, undone when one
\* of them fails.
CreateCourseInTransaction(course, op, arg) ==
    /\ IF course.Title = ""
       THEN /\ last' = [op |-> op, arg |-> arg, err |-> "course title is required"]
            /\ UNCHANGED <<courses, modules, content_items, nextCourse>>
       ELSE IF \/ course.CreatorID # NoUser /\ course.CreatorID \notin profiles
               \/ Fails("CreateCourse", NoKey)
       THEN /\ last' = [op |-> op, arg |-> arg, err |-> "failed to create course"]
            /\ UNCHANGED <<courses, modules, content_items, nextCourse>>
       ELSE \E at \in {FirstFailure(course, nextCourse + 1)} :
            /\ nextCourse' = nextCourse + 1
            /\ courses' = IF at # NoFailure THEN courses
                          ELSE courses \cup {[id |-> nextCourse', title |-> course.Title,
                                         description |->
                                            StoredNullString(
                                               [String |-> course.Description,
                                                Valid |-> course.Description # ""]),
                                         relative_path |-> course.RelativePath,
                                         creator_id |-> course.CreatorID,
                                         created_at |-> nextCourse']}
            /\ modules' = IF at # NoFailure THEN modules
                          ELSE modules \cup NewModuleRows(course, nextCourse')
            /\ content_items' = IF at # NoFailure THEN content_items
                                ELSE content_items
                                     \cup NewContentItemRows(course, nextCourse')
            /\ last' = IF at # NoFailure
                       THEN [op |-> op, arg |-> arg, id |-> nextCourse', failedAt |-> at,
                             input |-> course,
                             err |-> IF at[2] = 0 THEN "failed to create module"
                                     ELSE "failed to create content item"]
                       ELSE IF GetCourseErrIn(courses', modules', nextCourse') # ""
                       THEN [op |-> op, arg |-> arg, id |-> nextCourse',
                             err |-> GetCourseErrIn(courses', modules', nextCourse')]
                       ELSE [op |-> op, arg |-> arg, err |-> "",
                             course |-> GetCourseIn(courses', modules', content_items',
                                                    nextCourse')]
    /\ UNCHANGED <<envVars, accountVars, user_progress, clock>>

\* CreateCourse(course): validates the title, inserts the course row, then
\* every module with its content items, and returns GetCourse of the new id.
\* creator_id is NULL for uuid.Nil; the insert of a course whose creator is
\* no row of profiles violates the foreign key courses.creator_id.  An insert
\* that fails ends the call with its error: the rows inserted before it stay.
\* The task registry is left to the caller, a request or a goroutine.
CreateCourse(course, op, arg) ==
    /\ IF course.Title = ""
       THEN /\ last' = [op |-> op, arg |-> arg, err |-> "course title is required"]
            /\ UNCHANGED <<courses, modules, content_items, nextCourse>>
       ELSE IF \/ course.CreatorID # NoUser /\ course.CreatorID \notin profiles
               \/ Fails("CreateCourse", NoKey)
       THEN /\ last' = [op |-> op, arg |-> arg, err |-> "failed to create course"]
            /\ UNCHANGED <<courses, modules, content_items, nextCourse>>
       ELSE \E at \in {FirstFailure(course, nextCourse + 1)} :
            /\ nextCourse' = nextCourse + 1
            /\ courses' = courses \cup {[id |-> nextCourse', title |-> course.Title,
                                         description |->
                                            StoredNullString(
                                               [String |-> course.Description,
                                                Valid |-> course.Description # ""]),
                                         relative_path |-> course.RelativePath,
                                         creator_id |-> course.CreatorID,
                                         created_at |-> nextCourse']}
            /\ modules' = modules \cup InsertedModuleRows(course, nextCourse', at)
            /\ content_items' = content_items
                                \cup InsertedContentItemRows(course, nextCourse', at)
            /\ last' = IF at # NoFailure
                       THEN [op |-> op, arg |-> arg, id |-> nextCourse', failedAt |-> at,
                             input |-> course,
                             err |-> IF at[2] = 0 THEN "failed to create module"
                                     ELSE "failed to create content item"]
                       ELSE IF GetCourseErrIn(courses', modules', nextCourse') # ""
                       THEN [op |-> op, arg |-> arg, id |-> nextCourse',
                             err |-> GetCourseErrIn(courses', modules', nextCourse')]
                       ELSE [op |-> op, arg |-> arg, err |-> "",
                             course |-> GetCourseIn(courses', modules', content_items',
                                                    nextCourse')]
    /\ UNCHANGED <<envVars, accountVars, user_progress, clock>>

\* Mutation: the course row alone is deleted, as without ON DELETE CASCADE.
DeleteCourseRowOnly(courseID) ==
    /\ courses' = {c \in courses : c.id # courseID}
    /\ last' = [op |-> "DeleteCourse", course |-> courseID, err |-> "",
                modules |-> Cardinality(ModulesOfCourse(courseID)),
                items |-> Cardinality(ItemsOfModules(ModulesOfCourse(courseID)))]
    /\ UNCHANGED <<envVars, accountVars, taskVars, modules, content_items,
                   user_progress, nextCourse, clock>>

\* DeleteCourse(courseID): deletes the course row; the foreign keys cascade
\* to its modules, their content items and the progress rows of those items.
DeleteCourse(courseID) ==
    LET ms == ModulesOfCourse(courseID)
        is == ItemsOfModules(ms)
    IN /\ courses' = {c \in courses : c.id # courseID}
       /\ modules' = modules \ ms
       /\ content_items' = content_items \ is
       /\ user_progress' = {p \in user_progress :
                               \A c \in is : p.content_item_id # c.id}
       /\ last' = [op |-> "DeleteCourse", course |-> courseID, err |-> "",
                   modules |-> Cardinality(ms), items |-> Cardinality(is)]
       /\ UNCHANGED <<envVars, accountVars, taskVars, nextCourse, clock>>

(***************************************************************************)
(* CourseService: the progress writes.  progress_pct values are float32    *)
(* values holding small integers, written here as those integers.          *)
(***************************************************************************)
ContentItemIDs == {c.id : c \in content_items}

\* An id of no content item: a write for it violates the foreign key
\* user_progress.content_item_id.
NoSuchItem == <<0, 0, 0>>

\* sql.NullInt32{Int32: int32(lastPosition), Valid: lastPosition > 0}
NullPosition(lastPosition) ==
    IF lastPosition > 0 THEN NotNull(lastPosition) ELSE Null

\* The parameters each entry point hands to UpsertUserProgress at time now.
TrackUserProgressParams(userID, contentItemID, completed, progressPct, lastPosition, now) ==
    [UserID |-> userID, ContentItemID |-> contentItemID,
     Completed |-> completed, ProgressPct |-> progressPct,
     LastPosition |-> NullPosition(lastPosition),
     LastAccessed |-> NotNull(now)]

MarkContentItemCompletedParams(userID, contentItemID, now) ==
    [UserID |-> userID, ContentItemID |-> contentItemID,
     Completed |-> TRUE, ProgressPct |-> 100,
     LastPosition |-> Null,
     LastAccessed |-> NotNull(now)]

\* Mutation: completed only above the threshold, not at it.
UpdateContentItemProgressParamsStrict(userID, contentItemID, progressPct, lastPosition, now) ==
    [UserID |-> userID, ContentItemID |-> contentItemID,
     Completed |-> (progressPct > 100), ProgressPct |-> progressPct,
     LastPosition |-> NullPosition(lastPosition),
     LastAccessed |-> NotNull(now)]

UpdateContentItemProgressParams(userID, contentItemID, progressPct, lastPosition, now) ==
    [UserID |-> userID, ContentItemID |-> contentItemID,
     Completed |-> (progressPct >= 100), ProgressPct |-> progressPct,
     LastPosition |-> NullPosition(lastPosition),
     LastAccessed |-> NotNull(now)]

\* One progress write: the upsert runs as a single statement; a write for a
\* content item or a profile that does not exist fails and stores nothing.
\* last keeps the row the write found, if any.  The clock
\* advances with every write that reaches the table.
ProgressWrite(op, args, params) ==
    /\ clock < MaxClock
    /\ IF params.ContentItemID \in ContentItemIDs /\ params.UserID \in profiles
       THEN /\ user_progress' = UpsertUserProgress(params, clock + 1)
            /\ clock' = clock + 1
            /\ last' = [op |-> op, args |-> args, err |-> "", time |-> clock + 1,
                        repeat |-> /\ last.op = op
                                   /\ last.err = ""
                                   /\ last.args = args,
                        before |-> {p \in user_progress :
                                      /\ p.user_id = params.UserID
                                      /\ p.content_item_id = params.ContentItemID}]
       ELSE /\ last' = [op |-> op, err |-> "foreign key violation"]
            /\ UNCHANGED <<user_progress, clock>>
    /\ UNCHANGED <<envVars, accountVars, taskVars, courses, modules, content_items, nextCourse>>

TrackUserProgress(userID, contentItemID, completed, progressPct, lastPosition) ==
    ProgressWrite("TrackUserProgress",
                  <<userID, contentItemID, completed, progressPct, lastPosition>>,
                  TrackUserProgressParams(userID, contentItemID, completed,
                                          progressPct, lastPosition, clock + 1))

MarkContentItemCompleted(userID, contentItemID) ==
    ProgressWrite("MarkContentItemCompleted",
                  <<userID, contentItemID>>,
                  MarkContentItemCompletedParams(userID, contentItemID, clock + 1))

UpdateContentItemProgress(userID, contentItemID, progressPct, lastPosition) ==
    ProgressWrite("UpdateContentItemProgress",
                  <<userID, contentItemID, progressPct, lastPosition>>,
                  UpdateContentItemProgressParams(userID, contentItemID,
                                                  progressPct, lastPosition, clock + 1))

(***************************************************************************)
(* CourseService: the progress aggregation.                                *)
(***************************************************************************)
\* The loop of CalculateModuleProgress from item k on: one lookup per item.
\* ModuleProgressStep is the loop body for the rows found by the lookup: a
\* lookup that finds no row returns an error and the item is passed over.
RECURSIVE ModuleProgressLoop(_, _, _, _, _)
RECURSIVE ModuleProgressStep(_, _, _, _, _, _)
ModuleProgressStep(userID, contentItems, k, completedCount, lastAccessed, found) ==
    LET ok == found # {}
        progress == CHOOSE p \in found : TRUE
    IN ModuleProgressLoop(userID, contentItems, k + 1,
           IF ok /\ progress.completed THEN completedCount + 1 ELSE completedCount,
           IF /\ ok
              /\ progress.last_accessed.Valid
              /\ \/ ~lastAccessed.Valid
                 \/ progress.last_accessed.V > lastAccessed.V
           THEN progress.last_accessed ELSE lastAccessed)
ModuleProgressLoop(userID, contentItems, k, completedCount, lastAccessed) ==
    IF k > Len(contentItems)
    THEN [completedCount |-> completedCount, lastAccessed |-> lastAccessed]
    ELSE ModuleProgressStep(userID, contentItems, k, completedCount, lastAccessed,
             GetUserProgressByContentItem(userID, contentItems[k].ID))

\* Mutation: an empty module reported as 100% complete.
EmptyModuleProgressFull(userID, moduleID) ==
    [ModuleID |-> moduleID, UserID |-> userID,
     CompletedItems |-> 0, TotalItems |-> 0,
     CompletionPct |-> F32FromInt(100),
     LastAccessedAt |-> Null,
     IsCompleted |-> TRUE]

\* Mutation: an empty module reported as not completed.
EmptyModuleProgressIncomplete(userID, moduleID) ==
    [ModuleID |-> moduleID, UserID |-> userID,
     CompletedItems |-> 0, TotalItems |-> 0,
     CompletionPct |-> F32FromInt(0),
     LastAccessedAt |-> Null,
     IsCompleted |-> FALSE]

\* The result for a module without content items.
EmptyModuleProgress(userID, moduleID) ==
    [ModuleID |-> moduleID, UserID |-> userID,
     CompletedItems |-> 0, TotalItems |-> 0,
     CompletionPct |-> F32FromInt(0),
     LastAccessedAt |-> Null,
     IsCompleted |-> TRUE]

\* completionPct := float32(completedCount) / float32(len(contentItems)) * 100
ModuleCompletionPct(completedCount, total) ==
    F32MulInt(F32DivInts(completedCount, total), 100)

\* The result for a module of total > 0 content items, loop the outcome of
\* the loop over them.
ModuleProgressResult(userID, moduleID, total, loop) ==
    [ModuleID |-> moduleID, UserID |-> userID,
     CompletedItems |-> loop.completedCount,
     TotalItems |-> total,
     CompletionPct |-> ModuleCompletionPct(loop.completedCount, total),
     LastAccessedAt |-> loop.lastAccessed,
     IsCompleted |-> (loop.completedCount = total)]

\* CalculateModuleProgress once contentItems has been read.
ModuleProgressOf(userID, moduleID, contentItems) ==
    IF Len(contentItems) = 0
    THEN EmptyModuleProgress(userID, moduleID)
    ELSE ModuleProgressResult(userID, moduleID, Len(contentItems),
             ModuleProgressLoop(userID, contentItems, 1, 0, Null))

CalculateModuleProgress(userID, moduleID) ==
    ModuleProgressOf(userID, moduleID, GetContentItemsByModule(moduleID))

\* The error of CalculateModuleProgress: GetContentItemsByModule failed.
CalculateModuleProgressErr(moduleID) ==
    IF Fails("ListContentItemsByModule", moduleID)
    THEN "failed to get content items" ELSE ""

\* The persistence calls of CalculateModuleProgress that failed.
CalculateModuleProgressFailed(moduleID) ==
    {f \in faults :
        \/ f = <<"ListContentItemsByModule", moduleID>>
        \/ /\ CalculateModuleProgressErr(moduleID) = ""
           /\ \E c \in content_items :
                 /\ c.module_id = moduleID
                 /\ f = <<"GetUserProgressByContentItem", c.id>>}

\* The body of the loop of CalculateCourseProgress: the sums acc with the
\* progress of one more module added.
AddModuleProgress(acc, moduleProgress) ==
    [completedModules |-> IF moduleProgress.IsCompleted
                          THEN acc.completedModules + 1
                          ELSE acc.completedModules,
     totalCompletedItems |-> acc.totalCompletedItems + moduleProgress.CompletedItems,
     totalItems |-> acc.totalItems + moduleProgress.TotalItems,
     lastAccessed |-> IF /\ moduleProgress.LastAccessedAt.Valid
                         /\ \/ ~acc.lastAccessed.Valid
                            \/ moduleProgress.LastAccessedAt.V > acc.lastAccessed.V
                      THEN moduleProgress.LastAccessedAt ELSE acc.lastAccessed]

\* The loop of CalculateCourseProgress from module k on, over the results
\* of CalculateModuleProgress.
RECURSIVE CourseProgressLoop(_, _, _, _)
CourseProgressLoop(userID, mods, k, acc) ==
    IF k > Len(mods) THEN acc
    ELSE IF CalculateModuleProgressErr(mods[k].ID) # ""
    THEN CourseProgressLoop(userID, mods, k + 1, acc)
    ELSE CourseProgressLoop(userID, mods, k + 1,
             AddModuleProgress(acc, CalculateModuleProgress(userID, mods[k].ID)))

\* completionPct of a course: 0 unless totalItems > 0, and then
\* float32(totalCompletedItems) / float32(totalItems) * 100.
CourseCompletionPct(totalCompletedItems, totalItems) ==
    IF totalItems > 0
    THEN F32MulInt(F32DivInts(totalCompletedItems, totalItems), 100)
    ELSE F32FromInt(0)

\* The result for a course without modules.
EmptyCourseProgress(userID, courseID) ==
    [CourseID |-> courseID, UserID |-> userID,
     CompletedModules |-> 0, TotalModules |-> 0,
     CompletedItems |-> 0, TotalItems |-> 0,
     CompletionPct |-> F32FromInt(0),
     LastAccessedAt |-> Null,
     IsCompleted |-> TRUE]

\* The result for a course of total > 0 modules, sum the outcome of the loop
\* over them.
CourseProgressResult(userID, courseID, total, sum) ==
    [CourseID |-> courseID, UserID |-> userID,
     CompletedModules |-> sum.completedModules,
     TotalModules |-> total,
     CompletedItems |-> sum.totalCompletedItems,
     TotalItems |-> sum.totalItems,
     CompletionPct |-> CourseCompletionPct(sum.totalCompletedItems, sum.totalItems),
     LastAccessedAt |-> sum.lastAccessed,
     IsCompleted |-> (sum.completedModules = total)]

\* Mutation: the course percentage as the average of the modules'
\* percentages.  The sum of the percentages is kept as the fraction num / den.
AddModulePct(acc, moduleProgress) ==
    IF moduleProgress.TotalItems = 0
    THEN acc
    ELSE [num |-> acc.num * moduleProgress.TotalItems
                  + 100 * moduleProgress.CompletedItems * acc.den,
          den |-> acc.den * moduleProgress.TotalItems]

RECURSIVE AveragePctLoop(_, _, _, _)
AveragePctLoop(userID, mods, k, acc) ==
    IF k > Len(mods) THEN acc
    ELSE AveragePctLoop(userID, mods, k + 1,
             AddModulePct(acc, CalculateModuleProgress(userID, mods[k].ID)))

AveragedPct(total, avg) == F32Round(avg.num, avg.den * total, 0)

CourseProgressOfAveraging(userID, courseID, mods) ==
    IF Len(mods) = 0
    THEN EmptyCourseProgress(userID, courseID)
    ELSE [CourseProgressResult(userID, courseID, Len(mods),
              CourseProgressLoop(userID, mods, 1,
                  [completedModules |-> 0, totalCompletedItems |-> 0,
                   totalItems |-> 0, lastAccessed |-> Null]))
          EXCEPT !.CompletionPct =
              AveragedPct(Len(mods),
                  AveragePctLoop(userID, mods, 1, [num |-> 0, den |-> 1]))]

\* CalculateCourseProgress once the modules of the course have been read.
CourseProgressOf(userID, courseID, mods) ==
    IF Len(mods) = 0
    THEN EmptyCourseProgress(userID, courseID)
    ELSE CourseProgressResult(userID, courseID, Len(mods),
             CourseProgressLoop(userID, mods, 1,
                 [completedModules |-> 0, totalCompletedItems |-> 0,
                  totalItems |-> 0, lastAccessed |-> Null]))

CalculateCourseProgress(userID, courseID) ==
    CourseProgressOf(userID, courseID, GetModulesByCourse(courseID))

\* Mutation: the error of a module's computation ends the computation of
\* the course.
CalculateCourseProgressErrOfModules(courseID) ==
    IF Fails("ListModulesByCourse", courseID) THEN "failed to get modules"
    ELSE IF \E m \in modules : /\ m.course_id = courseID
                               /\ CalculateModuleProgressErr(m.id) # ""
    THEN "failed to get content items"
    ELSE ""

\* The error of CalculateCourseProgress: GetModulesByCourse failed.
CalculateCourseProgressErr(courseID) ==
    IF Fails("ListModulesByCourse", courseID) THEN "failed to get modules" ELSE ""

\* The persistence calls of CalculateCourseProgress that failed.
CalculateCourseProgressFailed(courseID) ==
    IF Fails("ListModulesByCourse", courseID)
    THEN {<<"ListModulesByCourse", courseID>>}
    ELSE UNION {CalculateModuleProgressFailed(m.id) :
                   m \in {n \in modules : n.course_id = courseID}}

\* How GetUserProgressSummary counts one course: "completed", "inProgress"
\* or "" (not counted).
ClassifyCourse(courseProgress) ==
    IF courseProgress.CompletedItems > 0
    THEN IF courseProgress.IsCompleted THEN "completed" ELSE "inProgress"
    ELSE ""

\* The loop of GetUserProgressSummary from course k on; SummaryStep is the
\* loop body for the class of course k.
RECURSIVE SummaryLoop(_, _, _, _, _)
RECURSIVE SummaryStep(_, _, _, _, _, _)
SummaryStep(userID, allCourses, k, completedCourses, inProgressCourses, class) ==
    SummaryLoop(userID, allCourses, k + 1,
        IF class = "completed" THEN completedCourses + 1 ELSE completedCourses,
        IF class = "inProgress" THEN inProgressCourses + 1 ELSE inProgressCourses)
SummaryLoop(userID, allCourses, k, completedCourses, inProgressCourses) ==
    IF k > Len(allCourses)
    THEN [completedCourses |-> completedCourses,
          inProgressCourses |-> inProgressCourses]
    ELSE IF CalculateCourseProgressErr(allCourses[k].id) # ""
    THEN SummaryLoop(userID, allCourses, k + 1, completedCourses, inProgressCourses)
    ELSE SummaryStep(userID, allCourses, k, completedCourses, inProgressCourses,
             ClassifyCourse(CalculateCourseProgress(userID, allCourses[k].id)))

\* The summary for totalCourses courses, loop the outcome of the loop over
\* them.
SummaryResult(userID, totalCourses, loop) ==
    [UserID |-> userID,
     TotalCourses |-> totalCourses,
     CompletedCourses |-> loop.completedCourses,
     InProgressCourses |-> loop.inProgressCourses,
     TotalTimeSpent |-> 0,
     StreakDays |-> 0]

\* GetUserProgressSummary once the courses have been listed.
SummaryOf(userID, allCourses) ==
    SummaryResult(userID, Len(allCourses), SummaryLoop(userID, allCourses, 1, 0, 0))

GetUserProgressSummary(userID) == SummaryOf(userID, ListCourses)

\* The error of GetUserProgressSummary: ListCourses failed.
GetUserProgressSummaryErr ==
    IF Fails("ListCourses", NoKey) THEN "failed to get courses" ELSE ""

\* The three read requests; each leaves its result in last.
GetModuleProgress(userID, moduleID) ==
    /\ last' = IF CalculateModuleProgressErr(moduleID) # ""
               THEN [op |-> "CalculateModuleProgress", user |-> userID,
                     module |-> moduleID,
                     err |-> CalculateModuleProgressErr(moduleID),
                     failed |-> CalculateModuleProgressFailed(moduleID)]
               ELSE [op |-> "CalculateModuleProgress", user |-> userID,
                     module |-> moduleID, err |-> "",
                     res |-> CalculateModuleProgress(userID, moduleID),
                     failed |-> CalculateModuleProgressFailed(moduleID)]
    /\ UNCHANGED <<envVars, accountVars, taskVars, courses, modules, content_items, user_progress,
                   nextCourse, clock>>

GetCourseProgress(userID, courseID) ==
    /\ last' = IF CalculateCourseProgressErr(courseID) # ""
               THEN [op |-> "CalculateCourseProgress", user |-> userID,
                     course |-> courseID,
                     err |-> CalculateCourseProgressErr(courseID),
                     failed |-> CalculateCourseProgressFailed(courseID)]
               ELSE [op |-> "CalculateCourseProgress", user |-> userID,
                     course |-> courseID, err |-> "",
                     res |-> CalculateCourseProgress(userID, courseID),
                     failed |-> CalculateCourseProgressFailed(courseID)]
    /\ UNCHANGED <<envVars, accountVars, taskVars, courses, modules, content_items, user_progress,
                   nextCourse, clock>>

GetProgressSummary(userID) ==
    /\ last' = IF GetUserProgressSummaryErr # ""
               THEN [op |-> "GetUserProgressSummary", user |-> userID,
                     err |-> GetUserProgressSummaryErr]
               ELSE [op |-> "GetUserProgressSummary", user |-> userID, err |-> "",
                     res |-> GetUserProgressSummary(userID)]
    /\ UNCHANGED <<envVars, accountVars, taskVars, courses, modules, content_items, user_progress,
                   nextCourse, clock>>

(***************************************************************************)
(* The service as a state machine: courses are created and deleted, users  *)
(* record progress, progress is read.                                      *)
(***************************************************************************)
\* The courses handed to CreateCourse: every sequence of at most MaxModules
\* modules with at most MaxItems content items each, and one course without
\* a title.  At most MaxCourses course ids are handed out and at most
\* MaxModules module rows are kept.
InputItem(j) ==
    [Title |-> "item", RelativePath |-> <<"course", "module", "item">>, Order |-> 0]
InputModule(n) ==
    [Title |-> "module", RelativePath |-> <<"course", "module">>, Order |-> 0,
     ContentItems |-> [j \in 1..n |-> InputItem(j)]]
InputCourse(title, sizes) ==
    [Title |-> title, Description |-> "", RelativePath |-> <<"course">>,
     CreatorID |-> NoUser,
     Modules |-> [i \in 1..Len(sizes) |-> InputModule(sizes[i])]]
CourseInputs ==
    {InputCourse("course", sizes) :
        sizes \in UNION {[1..n -> 0..MaxItems] : n \in 0..MaxModules}}
    \cup {InputCourse("", <<>>)}

Init ==
    /\ fs = <<>>
    /\ basePath = <<"/", "courses">>
    /\ courses = {}
    /\ modules = {}
    /\ content_items = {}
    /\ user_progress = {}
    /\ faults = {}
    /\ profiles = Users
    /\ nextProfile = MaxUsers
    /\ sessions = {}
    /\ nextSession = 0
    /\ currentSession = NoSession
    /\ calls = NoCalls
    /\ nextCourse = 0
    /\ clock = 0
    /\ last = [op |-> "none", err |-> ""]
    /\ tasks = {}
    /\ jobs = <<>>
    /\ reader = NoReader

Next ==
    \/ \E course \in CourseInputs :
          /\ nextCourse < MaxCourses
          /\ Cardinality(modules) + Len(course.Modules) <= MaxModules
          /\ CreateCourse(course, "CreateCourse", course)
          /\ UNCHANGED taskVars
    \/ \E c \in courses : DeleteCourse(c.id)
    \/ \E u \in Users, i \in ContentItemIDs \cup {NoSuchItem}, completed \in BOOLEAN,
          inp \in ProgressInputs :
          TrackUserProgress(u, i, completed, inp[1], inp[2])
    \/ \E u \in Users, i \in ContentItemIDs \cup {NoSuchItem} :
          MarkContentItemCompleted(u, i)
    \/ \E u \in Users, i \in ContentItemIDs \cup {NoSuchItem}, inp \in ProgressInputs :
          UpdateContentItemProgress(u, i, inp[1], inp[2])
    \/ \E u \in Users, m \in modules : GetModuleProgress(u, m.id)
    \/ \E u \in Users, c \in courses : GetCourseProgress(u, c.id)
    \/ \E u \in Users : GetProgressSummary(u)

Spec == Init /\ [][Next]_vars

(***************************************************************************)
(* Properties of the progress aggregation and of the progress writes,      *)
(* checked under Spec.                                                     *)
(***************************************************************************)
\* C1: for every user and every module with at least one content item,
\* CalculateModuleProgress returns without error TotalItems = the number of
\* content items of the module, CompletedItems = the number of those items
\* for which the user has a row with completed = true (an item without a row
\* counts as not completed), CompletionPct = 100 * CompletedItems /
\* TotalItems as float32 arithmetic gives it (within two units of its last
\* place), and IsCompleted iff CompletedItems = TotalItems; one of two items
\* gives exactly 50.
C1_ModuleProgress ==
    /\ ModuleCompletionPct(1, 2) = F32FromInt(50)
    /\ (/\ last.op = "CalculateModuleProgress"
        /\ \E c \in content_items : c.module_id = last.module)
       => LET items == {c \in content_items : c.module_id = last.module}
              done == {c \in items :
                         \E p \in user_progress : /\ p.user_id = last.user
                                                  /\ p.content_item_id = c.id
                                                  /\ p.completed}
              t == Cardinality(items)
              n == 100 * Cardinality(done)
              pct == last.res.CompletionPct
              diff == pct.m * t - n * 2^(0 - pct.e)
          IN /\ last.err = ""
             /\ last.res.TotalItems = t
             /\ last.res.CompletedItems = Cardinality(done)
             /\ pct.e <= 0
             /\ diff <= 2 * t
             /\ 0 - diff <= 2 * t
             /\ last.res.IsCompleted = (Cardinality(done) = t)

\* C1 witness: a module of two items, one of them completed by the user and
\* the other without a row of the user: 1, 2, 50, false.
C1_Witness ==
    /\ last.op = "CalculateModuleProgress"
    /\ last.res.TotalItems = 2
    /\ last.res.CompletedItems = 1
    /\ last.res.CompletionPct = F32FromInt(50)
    /\ ~last.res.IsCompleted
    /\ \E c \in content_items :
          /\ c.module_id = last.module
          /\ \A p \in user_progress :
                ~(p.user_id = last.user /\ p.content_item_id = c.id)

\* C2: for every user and every course, CalculateCourseProgress returns
\* CompletedItems and TotalItems summed over the modules of the course and
\* CompletionPct = 100 * CompletedItems / TotalItems as float32 arithmetic
\* gives it (0 when the course has no item), not the average of the modules'
\* percentages; totals of 1 of 10 give exactly 10.
C2_CourseProgress ==
    /\ CourseCompletionPct(1 + 0, 1 + 9) = F32FromInt(10)
    /\ last.op = "CalculateCourseProgress"
       => LET items == ItemsOfModules(ModulesOfCourse(last.course))
              done == {c \in items :
                         \E p \in user_progress : /\ p.user_id = last.user
                                                  /\ p.content_item_id = c.id
                                                  /\ p.completed}
              t == Cardinality(items)
              n == 100 * Cardinality(done)
              pct == last.res.CompletionPct
              diff == pct.m * t - n * 2^(0 - pct.e)
          IN /\ last.err = ""
             /\ last.res.TotalItems = t
             /\ last.res.CompletedItems = Cardinality(done)
             /\ pct.e <= 0
             /\ diff <= 2 * t
             /\ 0 - diff <= 2 * t
             /\ (t = 0 => pct = F32FromInt(0))

\* C2 witness: a course of a module with 1 of 1 items completed and a module
\* with 0 of 2: a third of the items, where the modules average 50.
C2_Witness ==
    /\ last.op = "CalculateCourseProgress"
    /\ last.res.TotalModules = 2
    /\ last.res.TotalItems = 3
    /\ last.res.CompletedItems = 1
    /\ last.res.CompletedModules = 1
    /\ last.res.CompletionPct = F32MulInt(F32DivInts(1, 3), 100)
    /\ last.res.CompletionPct # F32FromInt(50)

\* C3 (as the claim states it): for a module without content items
\* CalculateModuleProgress returns 0 completed, 0 total, a completion
\* percentage of 100 and IsCompleted = true.
C3_EmptyModuleIsFull ==
    (/\ last.op = "CalculateModuleProgress"
     /\ \A c \in content_items : c.module_id # last.module)
    => /\ last.res.CompletedItems = 0
       /\ last.res.TotalItems = 0
       /\ last.res.CompletionPct = F32FromInt(100)
       /\ last.res.IsCompleted

\* C4: for a module without content items CalculateModuleProgress returns
\* CompletionPct = 0 and IsCompleted = true, for every user and whatever
\* progress rows exist.
C4_EmptyModuleIsZero ==
    (/\ last.op = "CalculateModuleProgress"
     /\ \A c \in content_items : c.module_id # last.module)
    => /\ last.err = ""
       /\ last.res.CompletionPct = F32FromInt(0)
       /\ last.res.IsCompleted

\* C4 witness: the progress of an empty module, read while the user has a
\* progress row for an item of another module.
C4_Witness ==
    /\ last.op = "CalculateModuleProgress"
    /\ \A c \in content_items : c.module_id # last.module
    /\ \E p \in user_progress : p.user_id = last.user
    /\ last.res.CompletionPct = F32FromInt(0)
    /\ last.res.IsCompleted

\* C5: in the result of CalculateCourseProgress, CompletedModules is the
\* number of modules of the course that are themselves completed (every item
\* of the module has a completed row of the user, so a module without items
\* counts), TotalModules is the number of modules of the course, and
\* IsCompleted holds iff the two are equal.
C5_CompletedModules ==
    last.op = "CalculateCourseProgress"
    => LET mods == ModulesOfCourse(last.course)
           complete == {m \in mods :
                          \A c \in content_items :
                             c.module_id = m.id =>
                                \E p \in user_progress :
                                   /\ p.user_id = last.user
                                   /\ p.content_item_id = c.id
                                   /\ p.completed}
       IN /\ last.res.TotalModules = Cardinality(mods)
          /\ last.res.CompletedModules = Cardinality(complete)
          /\ last.res.IsCompleted = (Cardinality(complete) = Cardinality(mods))

\* C5 witness: a course of an empty module and a module with an item the
\* user has not completed: one of two modules is completed.
C5_Witness ==
    /\ last.op = "CalculateCourseProgress"
    /\ last.res.TotalModules = 2
    /\ last.res.CompletedModules = 1
    /\ last.res.CompletedItems = 0
    /\ ~last.res.IsCompleted
    /\ \E m \in ModulesOfCourse(last.course) :
          \A c \in content_items : c.module_id # m.id

\* C6 (as the claim states it): GetUserProgressSummary counts in
\* CompletedCourses every course whose CourseProgress has IsCompleted = true,
\* also one without a completed item, and in InProgressCourses every course
\* with CompletedItems > 0 that is not completed.
C6_SummaryCounts ==
    last.op = "GetUserProgressSummary"
    => LET progress(c) == CalculateCourseProgress(last.user, c.id)
       IN /\ last.res.CompletedCourses =
                Cardinality({c \in courses : progress(c).IsCompleted})
          /\ last.res.InProgressCourses =
                Cardinality({c \in courses : /\ progress(c).CompletedItems > 0
                                             /\ ~progress(c).IsCompleted})

\* C7: at every time there is at most one user_progress row per pair of user
\* and content item, whatever progress writes ran in whatever order; and a
\* progress write that repeats the successful write before it leaves the one
\* row of the pair as it was but for last_accessed (and updated_at), which
\* take the time of the later call.
C7_Upsert ==
    /\ [](\A p, q \in user_progress :
             (p.user_id = q.user_id /\ p.content_item_id = q.content_item_id)
             => p = q)
    /\ [][(last'.err = "" /\ last'.op \in {"TrackUserProgress",
                                            "MarkContentItemCompleted",
                                            "UpdateContentItemProgress"}
           /\ last'.repeat)
          => LET before == {p \in user_progress :
                              /\ p.user_id = last'.args[1]
                              /\ p.content_item_id = last'.args[2]}
                 after == {p \in user_progress' :
                              /\ p.user_id = last'.args[1]
                              /\ p.content_item_id = last'.args[2]}
             IN /\ Cardinality(before) = 1
                /\ after = {[p EXCEPT !.last_accessed = NotNull(last'.time),
                                      !.updated_at = last'.time] : p \in before}
                /\ \A p \in before : p.last_accessed.V < last'.time]_vars

\* C7 witness: a progress write has been repeated with the same arguments.
C7_Witness ==
    /\ last.op \in {"TrackUserProgress", "MarkContentItemCompleted",
                    "UpdateContentItemProgress"}
    /\ last.err = ""
    /\ last.repeat
    /\ Cardinality({p \in user_progress : /\ p.user_id = last.args[1]
                                          /\ p.content_item_id = last.args[2]}) = 1

\* C8: after MarkContentItemCompleted the row of the pair has completed =
\* true and progress_pct = 100, whatever it held before; after
\* UpdateContentItemProgress(pct) it has progress_pct = pct and completed =
\* (pct >= 100); after TrackUserProgress it has the caller's completed flag
\* and the caller's pct, the flag not derived from pct.
C8_CompletionRules ==
    (/\ last.err = ""
     /\ last.op \in {"TrackUserProgress", "MarkContentItemCompleted",
                     "UpdateContentItemProgress"})
    => \E p \in user_progress :
          /\ p.user_id = last.args[1]
          /\ p.content_item_id = last.args[2]
          /\ last.op = "MarkContentItemCompleted"
             => p.completed /\ p.progress_pct = 100
          /\ last.op = "UpdateContentItemProgress"
             => /\ p.progress_pct = last.args[3]
                /\ p.completed = (last.args[3] >= 100)
          /\ last.op = "TrackUserProgress"
             => /\ p.completed = last.args[3]
                /\ p.progress_pct = last.args[4]

\* C8 witness: TrackUserProgress has stored completed = true with a pct
\* below 100.
C8_Witness ==
    /\ last.op = "TrackUserProgress"
    /\ last.err = ""
    /\ \E p \in user_progress :
          /\ p.user_id = last.args[1]
          /\ p.content_item_id = last.args[2]
          /\ p.completed
          /\ p.progress_pct < 100

(***************************************************************************)
(* CourseService.ImportCourse and the import of one course directory.      *)
(***************************************************************************)
\* ImportCourse(directoryPath): a path that is not absolute is joined to the
\* base path; a path below "/courses/" is replaced by "../" joined with it
\* when that can be accessed; when the path cannot be accessed the directory
\* "test-course" of the base path, or "../" joined with it, is taken in its
\* place; the directory is parsed and the course created.
ImportFullPath(directoryPath) ==
    IF IsAbs(directoryPath) THEN directoryPath ELSE Join(basePath, directoryPath)

ImportAdjustedPath(fullPath) ==
    IF HasCoursesPrefix(fullPath) /\ Stat(Join(<<"..">>, fullPath)) # Absent
    THEN Join(<<"..">>, fullPath)
    ELSE fullPath

ImportFallbackPath ==
    IF Stat(Join(basePath, <<"test-course">>)) # Absent
    THEN Join(basePath, <<"test-course">>)
    ELSE Join(<<"..">>, Join(basePath, <<"test-course">>))

ImportUsedPath(fullPath) ==
    IF Stat(fullPath) # Absent THEN fullPath ELSE ImportFallbackPath

ImportFrom(usePath, directoryPath, creatorID) ==
    IF Stat(usePath) = Absent
    THEN /\ last' = [op |-> "ImportCourse", arg |-> directoryPath,
                     err |-> "course directory not accessible"]
         /\ UNCHANGED <<envVars, accountVars, courses, modules, content_items, user_progress,
                        nextCourse, clock>>
    ELSE IF ~Stat(usePath).isDir
    THEN /\ last' = [op |-> "ImportCourse", arg |-> directoryPath,
                     err |-> "specified path is not a directory"]
         /\ UNCHANGED <<envVars, accountVars, courses, modules, content_items, user_progress,
                        nextCourse, clock>>
    ELSE \E parsed \in {ParseCourseFolder(usePath)} :
            IF parsed.err # ""
            THEN /\ last' = [op |-> "ImportCourse", arg |-> directoryPath,
                             err |-> "error parsing course folder"]
                 /\ UNCHANGED <<envVars, accountVars, courses, modules, content_items,
                                user_progress, nextCourse, clock>>
            ELSE CreateCourse([parsed.course EXCEPT !.CreatorID = creatorID],
                              "ImportCourse", directoryPath)

ImportCourse(directoryPath, creatorID) ==
    \E usePath \in {ImportUsedPath(ImportAdjustedPath(ImportFullPath(directoryPath)))} :
       ImportFrom(usePath, directoryPath, creatorID)

\* The base path holds one entry, CourseDir: a file, an unreadable
\* directory, or a directory with at most MaxEntries entries below it.
MaxEntries == 5
MaxImports == 1
CourseDir == "go"
CourseRoots ==
    {File(CourseDir), Dir(CourseDir, FALSE, <<>>)} \cup
    {Dir(CourseDir, TRUE, l) : l \in Listings(MaxEntries)}

BasePaths == {<<"/", "courses">>, <<"/", "data">>, <<"..", "courses">>}

InitImport ==
    /\ fs \in {<<root>> : root \in CourseRoots}
    /\ basePath \in BasePaths
    /\ courses = {}
    /\ modules = {}
    /\ content_items = {}
    /\ user_progress = {}
    /\ faults = {}
    /\ profiles = Users
    /\ nextProfile = MaxUsers
    /\ sessions = {}
    /\ nextSession = 0
    /\ currentSession = NoSession
    /\ calls = NoCalls
    /\ nextCourse = 0
    /\ clock = 0
    /\ last = [op |-> "none", err |-> ""]
    /\ tasks = {}
    /\ jobs = <<>>
    /\ reader = NoReader

NextImport ==
    \/ \E d \in {CourseDir, "missing"}, u \in Users :
          /\ nextCourse < MaxImports
          /\ ImportCourse(<<d>>, u)
          /\ UNCHANGED taskVars
    \/ \E c \in courses : DeleteCourse(c.id)

SpecImport == InitImport /\ [][NextImport]_vars

(***************************************************************************)
(* Properties of the importer, checked under SpecImport.                   *)
(***************************************************************************)
\* C9: when the course root has at least one immediate subdirectory, the
\* imported course has exactly one module per immediate subdirectory, titled
\* with the subdirectory's name (also when the subdirectory is empty or
\* unreadable), and no other module; the k-th subdirectory of the listing
\* gives the module of order k - 1, in the table and in the course returned.
C9_ModulePerSubdirectory ==
    (/\ last.op = "ImportCourse"
     /\ last.err = ""
     /\ Stat(Join(basePath, last.arg)) # Absent)
    => LET IsSubdirectory(entry) == entry.isDir
           subdirs == SelectSeq(Stat(Join(basePath, last.arg)).entries, IsSubdirectory)
           mods == {m \in modules : m.course_id = last.course.ID}
       IN Len(subdirs) >= 1
          => /\ Cardinality(mods) = Len(subdirs)
             /\ Len(last.course.Modules) = Len(subdirs)
             /\ \A k \in 1..Len(subdirs) :
                   /\ \E m \in mods : /\ m.order = k - 1
                                      /\ m.title = subdirs[k].name
                   /\ last.course.Modules[k].Title = subdirs[k].name
                   /\ last.course.Modules[k].Order = k - 1

\* C9 witness: a root imported that holds an unreadable subdirectory, an
\* empty one and one with an entry, and a file among them.
C9_Witness ==
    /\ last.op = "ImportCourse"
    /\ last.err = ""
    /\ LET listing == Stat(Join(basePath, last.arg)).entries
       IN /\ \E k \in 1..Len(listing) : listing[k].isDir /\ ~listing[k].readable
          /\ \E k \in 1..Len(listing) : /\ listing[k].isDir
                                        /\ listing[k].readable
                                        /\ listing[k].entries = <<>>
          /\ \E k \in 1..Len(listing) : /\ listing[k].isDir
                                        /\ listing[k].entries # <<>>
          /\ \E k \in 1..Len(listing) : ~listing[k].isDir
    /\ Cardinality({m \in modules : m.course_id = last.course.ID}) = 3

Location(path) == Locate(Join(basePath, path))

\* The paths of the files at any depth below the directory entry at path,
\* and whether every directory at and below entry is readable.
RECURSIVE FilesBelow(_, _)
FilesBelow(entry, path) ==
    UNION {IF entry.entries[k].isDir
           THEN FilesBelow(entry.entries[k], Append(path, entry.entries[k].name))
           ELSE {Append(path, entry.entries[k].name)} :
           k \in 1..Len(entry.entries)}

RECURSIVE AllReadable(_)
AllReadable(entry) ==
    ~entry.isDir \/ (/\ entry.readable
                     /\ \A k \in 1..Len(entry.entries) : AllReadable(entry.entries[k]))

C12_OrderIsLevelIndex ==
    (last.op = "ImportCourse" /\ last.err = "")
    => \A c \in content_items :
          LET parent == SubSeq(c.relative_path, 1, Len(c.relative_path) - 1)
              listing == Stat(Join(basePath, parent)).entries
          IN \E k \in 1..Len(listing) :
                /\ listing[k].name = Base(c.relative_path)
                /\ c.order = k - 1

(***************************************************************************)
(* CourseParser.ListCourseDirectories and CourseService.ScanNewCourses.    *)
(***************************************************************************)
\* ListCourseDirectories from entry i of the base listing on: a FileInfo
\* [Path, RelativePath, Name] for every directory, in listing order.
RECURSIVE ListDirectoriesFrom(_, _)
ListDirectoriesFrom(entries, i) ==
    IF i > Len(entries) THEN <<>>
    ELSE (IF entries[i].isDir
          THEN <<[Path |-> Join(basePath, <<entries[i].name>>),
                  RelativePath |-> <<entries[i].name>>,
                  Name |-> entries[i].name]>>
          ELSE <<>>) \o ListDirectoriesFrom(entries, i + 1)

ListCourseDirectories == ListDirectoriesFrom(Stat(basePath).entries, 1)

\* Mutation: only the stored relative paths are taken for existing.
ExistingCoursePathsRelativeOnly == {c.relative_path : c \in courses}

\* existingCoursePaths of ScanNewCourses: for every course row the base
\* path joined with its relative path, and the relative path itself.
ExistingCoursePaths ==
    {Join(basePath, c.relative_path) : c \in courses}
    \cup {c.relative_path : c \in courses}

\* The directories of ScanNewCourses' result from directory i on.
RECURSIVE NewDirectoriesFrom(_, _, _)
NewDirectoriesFrom(directories, existing, i) ==
    IF i > Len(directories) THEN <<>>
    ELSE (IF /\ directories[i].Path \notin existing
             /\ directories[i].RelativePath \notin existing
          THEN <<directories[i]>>
          ELSE <<>>) \o NewDirectoriesFrom(directories, existing, i + 1)

ScanNewCourses ==
    /\ last' = [op |-> "ScanNewCourses", err |-> "",
                res |-> NewDirectoriesFrom(ListCourseDirectories,
                                           ExistingCoursePaths, 1)]
    /\ UNCHANGED <<envVars, accountVars, taskVars, courses, modules, content_items, user_progress,
                   nextCourse, clock>>

\* The courses directory of the scan: each of ScanNames is missing, a file,
\* an unreadable directory or a directory with one file.
MaxScanCourses == 2
ScanNames == <<"go", "rust", "test-course">>

RECURSIVE ScanListings(_)
ScanListings(i) ==
    IF i > Len(ScanNames) THEN {<<>>}
    ELSE {e \o r : e \in {<<>>, <<File(ScanNames[i])>>,
                          <<Dir(ScanNames[i], FALSE, <<>>)>>,
                          <<Dir(ScanNames[i], TRUE, <<File("a")>>)>>},
                   r \in ScanListings(i + 1)}

\* The paths asked to be imported: names below the base path, one of them
\* of no directory, and an absolute path.
ImportInputs == {<<"go">>, <<"rust">>, <<"missing">>, <<"/", "courses", "go">>}

\* The courses created through CreateCourse, with the relative path the
\* request gives: a full path, a bare name, an uncleaned path.
ScanCourseInputs ==
    {[Title |-> "t", Description |-> "", RelativePath |-> rp, CreatorID |-> NoUser,
      Modules |-> <<>>] :
        rp \in {Join(basePath, <<"go">>), <<"rust">>, <<".", "go">>}}

InitScan ==
    /\ fs \in ScanListings(1)
    /\ basePath \in BasePaths
    /\ courses = {}
    /\ modules = {}
    /\ content_items = {}
    /\ user_progress = {}
    /\ faults = {}
    /\ profiles = Users
    /\ nextProfile = MaxUsers
    /\ sessions = {}
    /\ nextSession = 0
    /\ currentSession = NoSession
    /\ calls = NoCalls
    /\ nextCourse = 0
    /\ clock = 0
    /\ last = [op |-> "none", err |-> ""]
    /\ tasks = {}
    /\ jobs = <<>>
    /\ reader = NoReader

NextScan ==
    \/ \E d \in ImportInputs, u \in Users :
          /\ nextCourse < MaxScanCourses
          /\ ImportCourse(d, u)
          /\ UNCHANGED taskVars
    \/ \E course \in ScanCourseInputs :
          /\ nextCourse < MaxScanCourses
          /\ CreateCourse(course, "CreateCourse", course)
          /\ UNCHANGED taskVars
    \/ \E c \in courses : DeleteCourse(c.id)
    \/ ScanNewCourses

SpecScan == InitScan /\ [][NextScan]_vars

NoResult == [SuccessCount |-> 0, FailureCount |-> 0]

Registered(id) == \E t \in tasks : t.ID = id /\ t.registered

TaskOf(id) == CHOOSE t \in tasks : t.ID = id

IsTerminal(status) == status \in {"completed", "failed"}

\* Mutation: a new task starts in status processing.
CreateTaskProcessing(id, now) ==
    tasks \cup {[ID |-> id, Type |-> "batch_import", Status |-> "processing",
                 Progress |-> 0, CreatedAt |-> now, StartedAt |-> 0,
                 CompletedAt |-> 0, Message |-> "", ErrorMessage |-> "",
                 Result |-> NoResult, registered |-> TRUE]}

\* CreateTask: the registry with the new task id, pending.
CreateTask(id, now) ==
    tasks \cup {[ID |-> id, Type |-> "batch_import", Status |-> "pending",
                 Progress |-> 0, CreatedAt |-> now, StartedAt |-> 0,
                 CompletedAt |-> 0, Message |-> "", ErrorMessage |-> "",
                 Result |-> NoResult, registered |-> TRUE]}

\* task.Status = status, in UpdateTaskStatus, SetTaskError and CompleteTask;
\* a task id the map does not hold is left alone.
SetStatus(id, status) ==
    {IF t.ID = id /\ t.registered THEN [t EXCEPT !.Status = status] ELSE t :
        t \in tasks}

\* The rest of UpdateTaskStatus(id, status).
UpdateTaskStatusRest(id, status, now) ==
    {IF t.ID = id /\ t.registered
     THEN [t EXCEPT !.StartedAt = IF status = "processing" /\ t.StartedAt = 0
                                  THEN now ELSE t.StartedAt,
                    !.CompletedAt = IF IsTerminal(status)
                                    THEN now ELSE t.CompletedAt]
     ELSE t : t \in tasks}

\* SetTaskMessage(id, message)
SetTaskMessage(id, message) ==
    {IF t.ID = id /\ t.registered THEN [t EXCEPT !.Message = message] ELSE t :
        t \in tasks}

\* The rest of SetTaskError(id, errorMessage).
SetTaskErrorRest(id, errorMessage, now) ==
    {IF t.ID = id /\ t.registered
     THEN [t EXCEPT !.ErrorMessage = errorMessage, !.CompletedAt = now]
     ELSE t : t \in tasks}

\* The rest of CompleteTask(id, result).
CompleteTaskRest(id, result, now) ==
    {IF t.ID = id /\ t.registered
     THEN [t EXCEPT !.Progress = 100, !.Result = result, !.CompletedAt = now]
     ELSE t : t \in tasks}

\* CleanupOldTasks(maxAge) with cutoff = time.Now() - maxAge: the completed
\* and failed tasks completed before the cutoff leave the map.
CleanupOldTasksIn(cutoff) ==
    {IF /\ t.registered
        /\ IsTerminal(t.Status)
        /\ t.CompletedAt # 0
        /\ t.CompletedAt < cutoff
     THEN [t EXCEPT !.registered = FALSE]
     ELSE t : t \in tasks}

\* manager.mu is held by a writer in the middle of its body.
WriteLocked ==
    \E k \in 1..Len(jobs) :
       jobs[k].pc \in {"status_rest", "error_rest", "complete_rest"}

(***************************************************************************)
(* CourseService.BatchImportCourses, one pass of its loop per step, and    *)
(* the goroutine CourseHandler.BatchImport starts around it.  A job is     *)
(* [inputs, i, imported, errors, pc]: the request's inputs, the index of   *)
(* the next input, the ids of the courses imported, the errors collected   *)
(* and the statement the goroutine is at.                                  *)
(***************************************************************************)
\* strings.ToLower and strings.EqualFold on the names of the model, of
\* which "Go" is the one with an upper-case letter.
ToLower(name) == IF name = "Go" THEN "go" ELSE name

EqualFold(a, b) == ToLower(a) = ToLower(b)

\* strings.Contains(lower, "udemy") && strings.Contains(lower, "javascript")
ContainsUdemyJavascript(name) == ToLower(name) \in {"udemy-javascript"}

CoursesDir == <<"..", "courses">>

\* The loop over the entries of "../courses" from entry i on: the first
\* directory that matches targetName gives the path, none leaves it.
RECURSIVE MatchFrom(_, _, _, _)
MatchFrom(entries, targetName, i, directoryPath) ==
    IF i > Len(entries) THEN directoryPath
    ELSE IF /\ entries[i].isDir
            /\ \/ entries[i].name = targetName
               \/ EqualFold(entries[i].name, targetName)
               \/ ContainsUdemyJavascript(entries[i].name)
    THEN Join(CoursesDir, <<entries[i].name>>)
    ELSE MatchFrom(entries, targetName, i + 1, directoryPath)

\* The Docker path fix of BatchImportCourses.
BatchAdjustedPath(directoryPath, relativePath) ==
    IF ~HasCoursesPrefix(directoryPath) THEN directoryPath
    ELSE IF Stat(Join(<<"..">>, directoryPath)) # Absent
    THEN Join(<<"..">>, directoryPath)
    ELSE IF Stat(CoursesDir).isDir /\ Stat(CoursesDir).readable
    THEN MatchFrom(Stat(CoursesDir).entries, Base(relativePath), 1, directoryPath)
    ELSE directoryPath

BatchDirectoryPath(input) ==
    BatchAdjustedPath(Join(IF input.BasePath = <<>> THEN basePath
                           ELSE input.BasePath,
                           input.RelativePath),
                      input.RelativePath)

BatchFallbackPath == Join(CoursesDir, <<"test-course">>)

\* Mutation: the loop stops at the first input that fails.
JobAdvanceStopAtError(job, imported, errors) ==
    [job EXCEPT !.imported = imported,
                !.errors = errors,
                !.i = IF errors # job.errors THEN Len(job.inputs) + 1 ELSE job.i + 1,
                !.pc = IF job.i + 1 <= Len(job.inputs) /\ errors = job.errors
                       THEN "import"
                       ELSE IF errors # <<>> /\ imported = <<>>
                       THEN "error"
                       ELSE "summary"]

\* The job after a pass of the loop; after the last pass BatchImportCourses
\* returns and the goroutine goes on by what it returned.
JobAdvance(job, imported, errors) ==
    [job EXCEPT !.imported = imported,
                !.errors = errors,
                !.i = job.i + 1,
                !.pc = IF job.i + 1 <= Len(job.inputs)
                       THEN "import"
                       ELSE IF errors # <<>> /\ imported = <<>>
                       THEN "error"
                       ELSE "summary"]

\* A pass that ends in an error before ImportCourse is called.
BatchSkip(id, message) ==
    /\ jobs' = [jobs EXCEPT ![id] = JobAdvance(jobs[id], jobs[id].imported,
                                                Append(jobs[id].errors, message))]
    /\ UNCHANGED <<envVars, accountVars, courses, modules, content_items, user_progress,
                   nextCourse, clock, last>>

\* A pass that calls ImportCourse and appends the course or the error.
BatchImportFrom(id, directoryPath) ==
    /\ ImportCourse(directoryPath, jobs[id].creatorID)
    /\ jobs' = [jobs EXCEPT ![id] =
                  IF last'.err # ""
                  THEN JobAdvance(jobs[id], jobs[id].imported,
                                  Append(jobs[id].errors, "failed to import course"))
                  ELSE JobAdvance(jobs[id],
                                  Append(jobs[id].imported, last'.course.ID),
                                  jobs[id].errors)]

\* One pass of the loop of BatchImportCourses, for input.
BatchImportInput(id, input, directoryPath) ==
    IF input.RelativePath = <<>>
    THEN BatchSkip(id, "relative path is required")
    ELSE IF Stat(directoryPath) # Absent
    THEN BatchImportFrom(id, directoryPath)
    ELSE IF Stat(BatchFallbackPath) # Absent
    THEN BatchImportFrom(id, BatchFallbackPath)
    ELSE BatchSkip(id, "directory does not exist or is not accessible")

BatchImportResponse(job) ==
    [SuccessCount |-> Len(job.imported), FailureCount |-> Len(job.errors)]

\* A statement of the goroutine that writes the task: the registry after it,
\* the statement that follows and whether it reads time.Now().
TaskStep(id, newTasks, pc, timed) ==
    /\ tasks' = newTasks
    /\ jobs' = [jobs EXCEPT ![id].pc = pc]
    /\ clock' = IF timed /\ Registered(id) THEN clock + 1 ELSE clock
    /\ UNCHANGED <<envVars, accountVars, courses, modules, content_items, user_progress,
                   nextCourse, last, reader>>

\* The statement the goroutine of task id is at.
JobStatement(id) ==
    \/ /\ jobs[id].pc = "status"
       /\ ~WriteLocked
       /\ TaskStep(id, SetStatus(id, "processing"), "status_rest", FALSE)
    \/ /\ jobs[id].pc = "status_rest"
       /\ TaskStep(id, UpdateTaskStatusRest(id, "processing", clock + 1),
                   "message", TRUE)
    \/ /\ jobs[id].pc = "message"
       /\ ~WriteLocked
       /\ TaskStep(id, SetTaskMessage(id, "Starting import"), "import", FALSE)
    \/ /\ jobs[id].pc = "import"
       /\ BatchImportInput(id, jobs[id].inputs[jobs[id].i],
                           BatchDirectoryPath(jobs[id].inputs[jobs[id].i]))
       /\ UNCHANGED <<tasks, reader>>
    \/ /\ jobs[id].pc = "error"
       /\ ~WriteLocked
       /\ TaskStep(id, SetStatus(id, "failed"), "error_rest", FALSE)
    \/ /\ jobs[id].pc = "error_rest"
       /\ TaskStep(id, SetTaskErrorRest(id, "Failed to import any courses",
                                        clock + 1),
                   "complete", TRUE)
    \/ /\ jobs[id].pc = "summary"
       /\ ~WriteLocked
       /\ TaskStep(id, SetTaskMessage(id, IF jobs[id].errors # <<>>
                                          THEN "Imported with errors"
                                          ELSE "Successfully imported"),
                   "complete", FALSE)
    \/ /\ jobs[id].pc = "complete"
       /\ ~WriteLocked
       /\ TaskStep(id, SetStatus(id, "completed"), "complete_rest", FALSE)
    \/ /\ jobs[id].pc = "complete_rest"
       /\ TaskStep(id, CompleteTaskRest(id, BatchImportResponse(jobs[id]),
                                        clock + 1),
                   "done", TRUE)

\* The goroutine of task id takes its next step.
JobStep(id) ==
    /\ id \in 1..Len(jobs)
    /\ JobStatement(id)

\* CourseHandler.BatchImport: a request without courses or without a current
\* user is rejected; an accepted one creates the task, starts the goroutine
\* and answers with the task id.
BatchImport(request) ==
    IF request.Courses = <<>>
    THEN /\ last' = [op |-> "BatchImport", err |-> "No courses provided for import"]
         /\ UNCHANGED <<envVars, accountVars, taskVars, courses, modules, content_items,
                        user_progress, nextCourse, clock>>
    ELSE IF request.userID = NoUser
    THEN /\ last' = [op |-> "BatchImport",
                     err |-> "You must be logged in to import courses"]
         /\ UNCHANGED <<envVars, accountVars, taskVars, courses, modules, content_items,
                        user_progress, nextCourse, clock>>
    ELSE /\ ~WriteLocked
         /\ tasks' = CreateTask(Len(jobs) + 1, clock + 1)
         /\ clock' = clock + 1
         /\ jobs' = Append(jobs, [inputs |-> request.Courses,
                                  creatorID |-> request.userID, i |-> 1,
                                  imported |-> <<>>, errors |-> <<>>,
                                  pc |-> "status"])
         /\ last' = [op |-> "BatchImport", err |-> "", task_id |-> Len(jobs) + 1]
         /\ UNCHANGED <<envVars, accountVars, courses, modules, content_items, user_progress,
                        nextCourse, reader>>

\* TaskHandler.GetTask: task.GetTask looks the id up under manager.mu.RLock()
\* and returns the pointer; the handler then encodes the task's fields, the
\* status first, without the lock.
GetTaskLookup(id) ==
    /\ reader.pc = "idle"
    /\ ~WriteLocked
    /\ IF Registered(id)
       THEN /\ reader' = [pc |-> "encode", task |-> id]
            /\ UNCHANGED last
       ELSE /\ last' = [op |-> "GetTask", task |-> id, err |-> "Task not found"]
            /\ UNCHANGED reader
    /\ UNCHANGED <<envVars, accountVars, tasks, jobs, courses, modules, content_items,
                   user_progress, nextCourse, clock>>

GetTaskEncodeStatus ==
    /\ reader.pc = "encode"
    /\ reader' = [pc |-> "encode_rest", task |-> reader.task,
                  Status |-> TaskOf(reader.task).Status]
    /\ UNCHANGED <<envVars, accountVars, tasks, jobs, courses, modules, content_items,
                   user_progress, nextCourse, clock, last>>

GetTaskEncodeRest ==
    /\ reader.pc = "encode_rest"
    /\ last' = [op |-> "GetTask", task |-> reader.task, err |-> "",
                res |-> [TaskOf(reader.task) EXCEPT !.Status = reader.Status]]
    /\ reader' = NoReader
    /\ UNCHANGED <<envVars, accountVars, tasks, jobs, courses, modules, content_items,
                   user_progress, nextCourse, clock>>

\* TaskHandler.CleanupTasks, CleanupRoutine and FactoryResetDatabase call
\* CleanupOldTasks with a cutoff that is not after time.Now().
CleanupOldTasks(cutoff) ==
    /\ ~WriteLocked
    /\ tasks' = CleanupOldTasksIn(cutoff)
    /\ UNCHANGED <<envVars, accountVars, jobs, reader, courses, modules, content_items,
                   user_progress, nextCourse, clock, last>>

\* The courses directory of the batch import: "go" is missing, a file or a
\* directory with one file, "test-course" is missing or a directory.
MaxTasks == 1
MaxBatch == 2

BatchListings ==
    {go \o tc : go \in {<<>>, <<File("go")>>, <<Dir("go", TRUE, <<File("a")>>)>>},
                tc \in {<<>>, <<Dir("test-course", TRUE, <<File("a")>>)>>}}

\* The inputs of a batch: no relative path, a directory name, the name in
\* another case, a name of no directory.
BatchInputs ==
    {[Title |-> "", RelativePath |-> rp, BasePath |-> <<>>] :
        rp \in {<<>>, <<"go">>, <<"Go">>, <<"missing">>}}

RECURSIVE BatchInputLists(_)
BatchInputLists(n) ==
    IF n = 0 THEN {<<>>}
    ELSE BatchInputLists(n - 1)
         \cup {Append(l, input) : l \in {m \in BatchInputLists(n - 1) : Len(m) = n - 1},
                                  input \in BatchInputs}

InitBatch ==
    /\ fs \in BatchListings
    /\ basePath \in BasePaths
    /\ courses = {}
    /\ modules = {}
    /\ content_items = {}
    /\ user_progress = {}
    /\ faults = {}
    /\ profiles = Users
    /\ nextProfile = MaxUsers
    /\ sessions = {}
    /\ nextSession = 0
    /\ currentSession = NoSession
    /\ calls = NoCalls
    /\ nextCourse = 0
    /\ clock = 0
    /\ last = [op |-> "none", err |-> ""]
    /\ tasks = {}
    /\ jobs = <<>>
    /\ reader = NoReader

NextBatch ==
    \/ \E l \in BatchInputLists(MaxBatch), userID \in {NoUser} \cup Users :
          /\ Len(jobs) < MaxTasks
          /\ BatchImport([Courses |-> l, userID |-> userID])
    \/ \E id \in 1..Len(jobs) : JobStep(id)
    \/ \E id \in 1..MaxTasks : GetTaskLookup(id)
    \/ GetTaskEncodeStatus
    \/ GetTaskEncodeRest
    \/ \E cutoff \in 1..(clock + 1) : CleanupOldTasks(cutoff)

SpecBatch == InitBatch /\ [][NextBatch]_vars

\* The scheduler runs every goroutine that can take a step: weak fairness of
\* the goroutine's statements.  A pass of the import loop waits for nothing,
\* so it can be taken exactly when the goroutine is at it, and its fairness
\* is written with that condition in the place of ENABLED.
AtImport(id) == id \in 1..Len(jobs) /\ jobs[id].pc = "import"

SpecBatchFair ==
    /\ SpecBatch
    /\ \A id \in 1..MaxTasks :
          /\ WF_vars(~AtImport(id) /\ JobStep(id))
          /\ ([]<>~AtImport(id) \/ []<><<AtImport(id) /\ JobStep(id)>>_vars)

\* C14: BatchImportCourses takes the inputs one after the other, and every
\* pass appends either one course to the imported courses or one error to
\* the errors, whatever the passes before it did: the two lengths add up to
\* the number of inputs taken so far, and to the number of all inputs once it
\* has returned; every input without a relative path has its error; the
\* imported courses are the course rows created, in the order of creation.
C14_BatchImportCourses ==
    /\ [](\A id \in 1..Len(jobs) :
             LET job == jobs[id]
                 taken == 1..(job.i - 1)
             IN /\ Len(job.imported) + Len(job.errors) = job.i - 1
                /\ job.pc \notin {"status", "status_rest", "message", "import"}
                   => job.i = Len(job.inputs) + 1
                /\ job.i <= Len(job.inputs) + 1
                /\ Cardinality({k \in taken : job.inputs[k].RelativePath = <<>>})
                   = Cardinality({k \in 1..Len(job.errors) :
                                    job.errors[k] = "relative path is required"})
                /\ \A k \in 1..Len(job.imported) :
                      \E c \in courses : c.id = job.imported[k]
                /\ \A k, n \in 1..Len(job.imported) :
                      k < n => job.imported[k] < job.imported[n])
    /\ [][\A id \in 1..Len(jobs) :
             jobs'[id].i # jobs[id].i
             => /\ jobs'[id].i = jobs[id].i + 1
                /\ \/ /\ jobs'[id].errors = jobs[id].errors
                      /\ Len(jobs'[id].imported) = Len(jobs[id].imported) + 1
                      /\ SubSeq(jobs'[id].imported, 1, Len(jobs[id].imported))
                         = jobs[id].imported
                      /\ Cardinality(courses') = Cardinality(courses) + 1
                   \/ /\ jobs'[id].imported = jobs[id].imported
                      /\ Len(jobs'[id].errors) = Len(jobs[id].errors) + 1
                      /\ SubSeq(jobs'[id].errors, 1, Len(jobs[id].errors))
                         = jobs[id].errors
                      /\ courses' = courses]_vars

\* C14 witness: a batch of two inputs has returned with the first input
\* failed and the second one imported.
C14_Witness ==
    \E id \in 1..Len(jobs) :
       /\ jobs[id].pc = "done"
       /\ Len(jobs[id].inputs) = 2
       /\ jobs[id].inputs[1].RelativePath = <<"missing">>
       /\ jobs[id].errors = <<"directory does not exist or is not accessible">>
       /\ Len(jobs[id].imported) = 1

\* C15 (as the claim states it): when BatchImportCourses has imported no
\* course of the batch, the task, once the goroutine has finished, is in
\* status failed and carries an error message, for as long as the registry
\* holds it.
C15_FailedStaysFailed ==
    \A id \in 1..Len(jobs) :
       (/\ jobs[id].pc = "done"
        /\ jobs[id].imported = <<>>
        /\ jobs[id].errors # <<>>
        /\ Registered(id))
       => /\ TaskOf(id).Status = "failed"
          /\ TaskOf(id).ErrorMessage # ""

\* C16: an accepted BatchImport request adds exactly one task, pending, under
\* the id it answers with, and exactly one goroutine, and nothing else ever
\* adds a task or a goroutine; the status of a task only ever goes from
\* pending to processing, from processing to completed or failed, or from one
\* of these two to the other; and, the goroutines being scheduled, every task
\* of the registry reaches completed or failed.
C16_TaskLifecycle ==
    /\ [][(last' # last /\ last'.op = "BatchImport" /\ last'.err = "")
          => /\ Len(jobs') = Len(jobs) + 1
             /\ jobs'[Len(jobs')].pc = "status"
             /\ \A t \in tasks : t.ID # last'.task_id
             /\ \E t \in tasks' :
                   /\ tasks' = tasks \cup {t}
                   /\ t \notin tasks
                   /\ t.ID = last'.task_id
                   /\ t.Status = "pending"
                   /\ t.registered]_vars
    /\ [][({t.ID : t \in tasks'} # {t.ID : t \in tasks} \/ Len(jobs') # Len(jobs))
          => (last' # last /\ last'.op = "BatchImport" /\ last'.err = "")]_vars
    /\ [][\A t \in tasks, u \in tasks' :
             t.ID = u.ID
             => \/ u.Status = t.Status
                \/ t.Status = "pending" /\ u.Status = "processing"
                \/ t.Status = "processing" /\ IsTerminal(u.Status)
                \/ IsTerminal(t.Status) /\ IsTerminal(u.Status)]_vars
    /\ \A id \in 1..MaxTasks :
          Registered(id) ~> (~Registered(id) \/ IsTerminal(TaskOf(id).Status))

\* C16 witness: the goroutine of a task has finished and the task, started
\* and completed, is in the registry.
C16_Witness ==
    \E id \in 1..Len(jobs) :
       /\ jobs[id].pc = "done"
       /\ Registered(id)
       /\ TaskOf(id).Status = "completed"
       /\ TaskOf(id).StartedAt # 0
       /\ TaskOf(id).CompletedAt > TaskOf(id).StartedAt

\* The directory ImportCourse is asked for: the path itself when absolute,
\* else the path below the base path.
Requested(directoryPath) ==
    Stat(IF IsAbs(directoryPath) THEN directoryPath
         ELSE Join(basePath, directoryPath))

\* C17 (as the claim states it): ImportCourse of a directory that does not
\* exist returns an error, in a batch too; it does not return a course, which
\* it only does after creating the course row from some directory.
C17_MissingDirectoryFails ==
    (last.op = "ImportCourse" /\ Requested(last.arg) = Absent) => last.err # ""

\* C19 (as the claim states it): while a goroutine is inside a task function
\* that writes a task, holding the registry lock, no status request is
\* reading the fields of that task.
C19_ReadsUnderLock ==
    \A id \in 1..Len(jobs) :
       jobs[id].pc \in {"status_rest", "error_rest", "complete_rest"}
       => ~(reader.pc \in {"encode", "encode_rest"} /\ reader.task = id)

(***************************************************************************)
(* The profiles and the factory reset, with the course tree: the rows the  *)
(* foreign keys of the schema leave in the tables.                         *)
(***************************************************************************)

\* ProfileService.CreateProfile: the name is validated, the id is uuid.New().
CreateProfile(name) ==
    /\ IF name = ""
       THEN /\ last' = [op |-> "CreateProfile", err |-> "profile name cannot be empty"]
            /\ UNCHANGED <<profiles, nextProfile>>
       ELSE /\ nextProfile' = nextProfile + 1
            /\ profiles' = profiles \cup {nextProfile'}
            /\ last' = [op |-> "CreateProfile", err |-> "", id |-> nextProfile']
    /\ UNCHANGED <<envVars, taskVars, sessionVars, courses, modules, content_items, user_progress,
                   nextCourse, clock>>

\* ProfileService.DeleteProfileByID: DELETE FROM profiles WHERE id = $1.  The
\* progress rows and the session rows of the profile go with it
\* (user_progress.user_id and sessions.user_id ON DELETE CASCADE); a profile
\* that courses.creator_id references cannot be deleted.  The session store
\* is not called.
DeleteProfileByID(userID) ==
    /\ IF userID = NoUser
       THEN /\ last' = [op |-> "DeleteProfileByID", err |-> "user ID cannot be empty"]
            /\ UNCHANGED <<profiles, user_progress, sessions>>
       ELSE IF \E c \in courses : c.creator_id = userID
       THEN /\ last' = [op |-> "DeleteProfileByID", err |-> "failed to delete profile"]
            /\ UNCHANGED <<profiles, user_progress, sessions>>
       ELSE /\ profiles' = profiles \ {userID}
            /\ user_progress' = {p \in user_progress : p.user_id # userID}
            /\ sessions' = {r \in sessions : r.user_id # userID}
            /\ last' = [op |-> "DeleteProfileByID", err |-> "", user |-> userID]
    /\ UNCHANGED <<envVars, taskVars, nextProfile, nextSession, currentSession, calls,
                   courses, modules, content_items, nextCourse, clock>>

\* AdminService.FactoryResetDatabase: the query empties user_progress,
\* sessions, content_items, modules, courses and profiles in one statement
\* list; session.ClearAllSessions then clears the cached session, unless its
\* DeleteAllSessions fails, which is logged and no more; and
\* task.CleanupOldTasks(0) takes the finished tasks out of the registry.
FactoryResetDatabase ==
    /\ ~WriteLocked
    /\ courses' = {}
    /\ modules' = {}
    /\ content_items' = {}
    /\ user_progress' = {}
    /\ profiles' = {}
    /\ sessions' = {}
    /\ currentSession' = IF Fails("DeleteAllSessions", NoKey)
                         THEN currentSession ELSE NoSession
    /\ tasks' = CleanupOldTasksIn(clock + 1)
    /\ last' = [op |-> "FactoryResetDatabase", err |-> ""]
    /\ UNCHANGED <<envVars, nextProfile, nextSession, calls, nextCourse, clock,
                   jobs, reader>>

\* The courses of the store: at most MaxStoreCourses are created, by the
\* import of a directory with a file and a module directory, or by
\* CreateCourse.
MaxStoreCourses == 2

StoreListing == <<Dir("go", TRUE, <<File("a"), Dir("m", TRUE, <<File("b")>>)>>)>>

StoreCourseInputs ==
    {[InputCourse("course", sizes) EXCEPT !.CreatorID = u] :
        sizes \in {<<>>, <<0>>, <<1>>}, u \in {NoUser, 1}}

InitStore ==
    /\ fs = StoreListing
    /\ basePath = <<"/", "courses">>
    /\ courses = {}
    /\ modules = {}
    /\ content_items = {}
    /\ user_progress = {}
    /\ faults = {}
    /\ profiles = {}
    /\ nextProfile = 0
    /\ sessions = {}
    /\ nextSession = 0
    /\ currentSession = NoSession
    /\ calls = NoCalls
    /\ nextCourse = 0
    /\ clock = 0
    /\ last = [op |-> "none", err |-> ""]
    /\ tasks = {}
    /\ jobs = <<>>
    /\ reader = NoReader

\* The creator of an import is session.GetCurrentUser(): a profile that was
\* created, and that may have been deleted since.
NextStore ==
    \/ \E name \in {"", "a"} :
          /\ nextProfile < MaxUsers
          /\ CreateProfile(name)
    \/ \E u \in {NoUser} \cup (1..nextProfile) : DeleteProfileByID(u)
    \/ \E d \in {<<"go">>, <<"missing">>}, u \in 1..nextProfile :
          /\ nextCourse < MaxStoreCourses
          /\ ImportCourse(d, u)
          /\ UNCHANGED taskVars
    \/ \E course \in StoreCourseInputs :
          /\ nextCourse < MaxStoreCourses
          /\ CreateCourse(course, "CreateCourse", course)
          /\ UNCHANGED taskVars
    \/ \E id \in 1..nextCourse : DeleteCourse(id)
    \/ \E u \in 1..nextProfile, i \in ContentItemIDs \cup {NoSuchItem} :
          MarkContentItemCompleted(u, i)
    \/ FactoryResetDatabase

SpecStore == InitStore /\ [][NextStore]_vars

\* C18: in every state of the tables every module row references a row of
\* courses and every content item row a row of modules, whatever courses
\* were created or imported, and whatever courses and profiles were deleted
\* or reset; and DeleteCourse takes out the course row, the module rows of
\* that course and the content item rows of those modules, and no other row
\* of the three tables.
C18_OwnershipKept ==
    /\ [](/\ \A m \in modules : \E c \in courses : c.id = m.course_id
          /\ \A i \in content_items : \E m \in modules : m.id = i.module_id)
    /\ [][last'.op = "DeleteCourse" =>
            /\ courses' = {c \in courses : c.id # last'.course}
            /\ modules' = {m \in modules : m.course_id # last'.course}
            /\ content_items' =
                 {i \in content_items :
                     \A m \in modules : m.id = i.module_id
                                        => m.course_id # last'.course}]_vars

\* A course with modules and content items was deleted, and another course
\* with modules and content items is still there.
C18_Witness ==
    /\ last.op = "DeleteCourse"
    /\ last.modules > 0
    /\ last.items > 0
    /\ \E c \in courses :
          /\ c.id # last.course
          /\ \E m \in modules :
                /\ m.course_id = c.id
                /\ \E i \in content_items : i.module_id = m.id

(***************************************************************************)
(* The service over a storage that fails read queries.                     *)
(***************************************************************************)

\* The error of GetCourse(id): of the course query, of the query of its
\* modules, or of the query of the content items of one of them.
GetCourseErr(id) == GetCourseErrIn(courses, modules, id)

\* The persistence calls of GetCourse(id) that failed: the first one it
\* reaches, after which it returns.
GetCourseFailed(id) ==
    IF Fails("GetCourse", id) THEN {<<"GetCourse", id>>}
    ELSE IF Fails("ListModulesByCourse", id) THEN {<<"ListModulesByCourse", id>>}
    ELSE {f \in faults : \E m \in modules : /\ m.course_id = id
                                            /\ f = <<"ListContentItemsByModule", m.id>>}

\* The course ListCourses puts in its result for a row of courses: GetCourse
\* of the row's id, or the row alone, without modules, when GetCourse failed.
ListedCourse(dbCourse) ==
    IF GetCourseErr(dbCourse.id) # ""
    THEN [ID |-> dbCourse.id, Title |-> dbCourse.title,
          Description |-> dbCourse.description.String,
          RelativePath |-> dbCourse.relative_path,
          CreatorID |-> dbCourse.creator_id,
          Modules |-> <<>>]
    ELSE GetCourse(dbCourse.id)

\* CourseService.ListCourses, once the rows of courses have been read.
ListCoursesOf(dbCourses) ==
    [k \in 1..Len(dbCourses) |-> ListedCourse(dbCourses[k])]

\* CourseService.ListCourses as a request.
CourseServiceListCourses ==
    /\ last' = IF Fails("ListCourses", NoKey)
               THEN [op |-> "ListCourses", err |-> "error retrieving courses",
                     failed |-> {<<"ListCourses", NoKey>>}]
               ELSE [op |-> "ListCourses", err |-> "",
                     res |-> ListCoursesOf(ListCourses),
                     failed |-> UNION {GetCourseFailed(c.id) : c \in courses}]
    /\ UNCHANGED <<envVars, accountVars, taskVars, courses, modules, content_items,
                   user_progress, nextCourse, clock>>

\* The read queries the storage can fail, for the rows of the tables.
FaultCandidates ==
    {<<"ListCourses", NoKey>>}
    \cup {<<"GetCourse", c.id>> : c \in courses}
    \cup {<<"ListModulesByCourse", c.id>> : c \in courses}
    \cup {<<"ListContentItemsByModule", m.id>> : m \in modules}
    \cup {<<"GetUserProgressByContentItem", c.id>> : c \in content_items}

\* The storage starts or stops failing queries: at most MaxFaults at a time.
MaxFaults == 1

RECURSIVE FaultSets(_)
FaultSets(n) ==
    IF n = 0 THEN {{}}
    ELSE FaultSets(n - 1)
         \cup {f \cup {q} : f \in FaultSets(n - 1), q \in FaultCandidates}

StorageChange(f) ==
    /\ faults' = f
    /\ UNCHANGED <<fs, basePath, accountVars, taskVars, courses, modules,
                   content_items, user_progress, nextCourse, clock, last>>

\* One course of at most MaxModules modules is created while the storage
\* works, user 1 completes items, the storage fails queries, progress and
\* courses are read.
InitFail ==
    /\ fs = <<>>
    /\ basePath = <<"/", "courses">>
    /\ faults = {}
    /\ courses = {}
    /\ modules = {}
    /\ content_items = {}
    /\ user_progress = {}
    /\ profiles = Users
    /\ nextProfile = MaxUsers
    /\ sessions = {}
    /\ nextSession = 0
    /\ currentSession = NoSession
    /\ calls = NoCalls
    /\ nextCourse = 0
    /\ clock = 0
    /\ last = [op |-> "none", err |-> ""]
    /\ tasks = {}
    /\ jobs = <<>>
    /\ reader = NoReader

NextFail ==
    \/ \E course \in CourseInputs :
          /\ nextCourse < MaxCourses
          /\ faults = {}
          /\ CreateCourse(course, "CreateCourse", course)
          /\ UNCHANGED taskVars
    \/ \E i \in ContentItemIDs :
          /\ faults = {}
          /\ MarkContentItemCompleted(1, i)
    \/ \E f \in FaultSets(MaxFaults) : StorageChange(f)
    \/ \E m \in modules : GetModuleProgress(1, m.id)
    \/ \E c \in courses : GetCourseProgress(1, c.id)
    \/ GetProgressSummary(1)
    \/ CourseServiceListCourses

SpecFail == InitFail /\ [][NextFail]_vars

\* C20 (as the claim states it, for its two named operations): a call of
\* CalculateModuleProgress or of ListCourses during which a persistence
\* call failed returns an error.
C20_FailuresReturned ==
    (last.op \in {"CalculateModuleProgress", "ListCourses"} /\ last.failed # {})
    => last.err # ""

\* The modules of the last CalculateCourseProgress whose computation failed,
\* the other modules of the course, and the content items of those that the
\* user has completed, as the lookups that did not fail show them.
FailedModules ==
    {m \in modules : /\ m.course_id = last.course
                     /\ <<"ListContentItemsByModule", m.id>> \in last.failed}
SummedModules == {m \in modules : m.course_id = last.course} \ FailedModules
SummedItems == {c \in content_items : \E m \in SummedModules : c.module_id = m.id}
SummedCompleted ==
    {c \in SummedItems :
        /\ <<"GetUserProgressByContentItem", c.id>> \notin last.failed
        /\ \E p \in user_progress : /\ p.user_id = last.user
                                    /\ p.content_item_id = c.id
                                    /\ p.completed}

\* C21: a CalculateCourseProgress during which the computation of a module
\* failed returns a result and no error; CompletedItems, TotalItems and
\* CompletedModules are the sums over the modules that did not fail, and the
\* failed modules add nothing to them.
C21_FailedModuleSkipped ==
    (/\ last.op = "CalculateCourseProgress"
     /\ FailedModules # {})
    => /\ last.err = ""
       /\ last.res.TotalItems = Cardinality(SummedItems)
       /\ last.res.CompletedItems = Cardinality(SummedCompleted)
       /\ last.res.CompletedModules =
             Cardinality({m \in SummedModules :
                             \A c \in SummedItems :
                                c.module_id = m.id => c \in SummedCompleted})

\* The computation of a module with a completed item failed, and the other
\* module of the course was summed with its completed item.
C21_Witness ==
    /\ last.op = "CalculateCourseProgress"
    /\ last.err = ""
    /\ \E m \in FailedModules :
          \E c \in content_items, p \in user_progress :
             c.module_id = m.id /\ p.content_item_id = c.id /\ p.completed
    /\ SummedModules # {}
    /\ last.res.CompletedItems > 0

C27_EveryFileImported ==
    (/\ last.op = "ImportCourse"
     /\ last.err = ""
     /\ Stat(Join(basePath, last.arg)) # Absent
     /\ AllReadable(Stat(Join(basePath, last.arg))))
    => \A f \in FilesBelow(Stat(Join(basePath, last.arg)), last.arg) :
          Cardinality({c \in content_items :
                          Location(c.relative_path) = Location(f)}) = 1

\* C28: every successful progress write leaves, in the row of its pair of
\* user and content item, the completed flag, progress_pct, last_position
\* and last_accessed of that call alone, whatever the row held before: a
\* call that gives no position (MarkContentItemCompleted, or a position of
\* 0) stores a null last_position, and UpdateContentItemProgress below 100
\* stores completed = false over a completed row.
C28_LastWriteWins ==
    (/\ last.err = ""
     /\ last.op \in {"TrackUserProgress", "MarkContentItemCompleted",
                     "UpdateContentItemProgress"})
    => \A p \in user_progress :
          (p.user_id = last.args[1] /\ p.content_item_id = last.args[2])
          => /\ p.last_accessed = NotNull(last.time)
             /\ last.op = "MarkContentItemCompleted"
                => /\ p.completed
                   /\ p.progress_pct = 100
                   /\ p.last_position = Null
             /\ last.op = "UpdateContentItemProgress"
                => /\ p.completed = (last.args[3] >= 100)
                   /\ p.progress_pct = last.args[3]
                   /\ p.last_position = NullPosition(last.args[4])
             /\ last.op = "TrackUserProgress"
                => /\ p.completed = last.args[3]
                   /\ p.progress_pct = last.args[4]
                   /\ p.last_position = NullPosition(last.args[5])

\* UpdateContentItemProgress below 100 has found a completed row and left
\* it not completed.
C28_Witness ==
    /\ last.op = "UpdateContentItemProgress"
    /\ last.err = ""
    /\ last.args[3] < 100
    /\ \E q \in last.before : q.completed
    /\ \E p \in user_progress : /\ p.user_id = last.args[1]
                                /\ p.content_item_id = last.args[2]
                                /\ ~p.completed


\* ---------------------------------------------------------------------------
\* The session store (pkg/session/store.go).  A call of the store is a
\* sequence of statements: each query is one statement, each write of the
\* cached session under store.mu is one statement; the calls of different
\* requests interleave between statements.
\* ---------------------------------------------------------------------------

\* session.GetCurrentUser: the user of the cached session, uuid.Nil without.
GetCurrentUser ==
    IF currentSession = NoSession THEN NoUser ELSE currentSession.user_id

\* session.IsLoggedIn.
IsLoggedIn == GetCurrentUser # NoUser

\* No call of the session store is running.
SessionCallsIdle == \A k \in DOMAIN calls : calls[k] = IdleCall

\* What a statement of the session store leaves alone.
SessionFrame ==
    UNCHANGED <<envVars, taskVars, profiles, nextProfile, courses, modules, content_items,
                user_progress, nextCourse, clock>>

\* GetActiveSession: ORDER BY created_at DESC LIMIT 1, the session created last.
GetActiveSession ==
    CHOOSE r \in sessions : \A o \in sessions : o.id <= r.id

\* loadActiveSession, the goroutine Initialize starts: it reads the active
\* session, and returns if the query fails or finds no row.
LoadActiveSessionQuery(k) ==
    /\ calls[k].pc = "load"
    /\ calls' = [calls EXCEPT ![k] =
                   IF sessions = {} \/ Fails("GetActiveSession", NoKey)
                   THEN IdleCall
                   ELSE [op |-> "loadActiveSession", pc |-> "cache",
                         session |-> GetActiveSession]]
    /\ UNCHANGED <<sessions, nextSession, currentSession, last>>
    /\ SessionFrame

\* ProfileHandler.SelectProfile: the profile must exist, then
\* session.SetCurrentUser(profileID) starts with ClearAllSessions().
SelectProfile(k, profileID) ==
    /\ calls[k] = IdleCall
    /\ IF profileID \notin profiles
       THEN /\ last' = [op |-> "SelectProfile", err |-> "Profile not found"]
            /\ UNCHANGED calls
       ELSE /\ calls' = [calls EXCEPT ![k] =
                           [op |-> "SetCurrentUser", pc |-> "delete", user |-> profileID]]
            /\ UNCHANGED last
    /\ UNCHANGED <<sessions, nextSession, currentSession>>
    /\ SessionFrame

\* session.ClearCurrentUser is called.
ClearCurrentUser(k) ==
    /\ calls[k] = IdleCall
    /\ calls' = [calls EXCEPT ![k] = [op |-> "ClearCurrentUser", pc |-> "read"]]
    /\ UNCHANGED <<sessions, nextSession, currentSession, last>>
    /\ SessionFrame

\* session.ClearAllSessions is called.
ClearAllSessions(k) ==
    /\ calls[k] = IdleCall
    /\ calls' = [calls EXCEPT ![k] = [op |-> "ClearAllSessions", pc |-> "delete"]]
    /\ UNCHANGED <<sessions, nextSession, currentSession, last>>
    /\ SessionFrame

\* Where a call goes on after ClearAllSessions: SetCurrentUser creates its
\* session (it ignores the error of ClearAllSessions), ClearAllSessions returns.
AfterClearAll(call) ==
    IF call.op = "SetCurrentUser"
    THEN [op |-> "SetCurrentUser", pc |-> "create", user |-> call.user]
    ELSE IdleCall

\* ClearAllSessions, DB.DeleteAllSessions: on an error it returns the error
\* and leaves the cached session.
DeleteAllSessions(k) ==
    /\ calls[k].pc = "delete"
    /\ IF Fails("DeleteAllSessions", NoKey)
       THEN /\ calls' = [calls EXCEPT ![k] = AfterClearAll(calls[k])]
            /\ UNCHANGED sessions
       ELSE /\ sessions' = {}
            /\ calls' = [calls EXCEPT ![k] = [calls[k] EXCEPT !.pc = "uncache"]]
    /\ UNCHANGED <<nextSession, currentSession, last>>
    /\ SessionFrame

\* ClearAllSessions: store.currentSession = nil under store.mu.
ClearAllSessionsCache(k) ==
    /\ calls[k].pc = "uncache"
    /\ currentSession' = NoSession
    /\ calls' = [calls EXCEPT ![k] = AfterClearAll(calls[k])]
    /\ UNCHANGED <<sessions, nextSession, last>>
    /\ SessionFrame

\* SetCurrentUser, DB.CreateSession with a fresh id: sessions.user_id
\* references profiles, so the insert fails for a profile that is gone; on an
\* error SetCurrentUser logs and returns.
CreateSession(k) ==
    /\ calls[k].pc = "create"
    /\ nextSession' = nextSession + 1
    /\ IF Fails("CreateSession", NoKey) \/ calls[k].user \notin profiles
       THEN /\ calls' = [calls EXCEPT ![k] = IdleCall]
            /\ UNCHANGED sessions
       ELSE /\ sessions' = sessions \cup {[id |-> nextSession', user_id |-> calls[k].user]}
            /\ calls' = [calls EXCEPT ![k] =
                           [op |-> calls[k].op, pc |-> "cache",
                            session |-> [id |-> nextSession', user_id |-> calls[k].user]]]
    /\ UNCHANGED <<currentSession, last>>
    /\ SessionFrame

\* SetCurrentUser and loadActiveSession: store.currentSession = &session
\* under store.mu.
CacheSession(k) ==
    /\ calls[k].pc = "cache"
    /\ currentSession' = calls[k].session
    /\ calls' = [calls EXCEPT ![k] = IdleCall]
    /\ UNCHANGED <<sessions, nextSession, last>>
    /\ SessionFrame

\* ClearCurrentUser: session := store.currentSession under the read lock.
ReadCurrentSession(k) ==
    /\ calls[k].pc = "read"
    /\ calls' = [calls EXCEPT ![k] =
                   [op |-> "ClearCurrentUser", pc |-> "delete_one", session |-> currentSession]]
    /\ UNCHANGED <<sessions, nextSession, currentSession, last>>
    /\ SessionFrame

\* ClearCurrentUser: DB.DeleteSession(session.ID) if there was a cached
\* session; an error is logged.
DeleteSession(k) ==
    /\ calls[k].pc = "delete_one"
    /\ sessions' = IF calls[k].session = NoSession \/ Fails("DeleteSession", NoKey)
                   THEN sessions
                   ELSE {r \in sessions : r.id # calls[k].session.id}
    /\ calls' = [calls EXCEPT ![k] = [op |-> "ClearCurrentUser", pc |-> "clear"]]
    /\ UNCHANGED <<nextSession, currentSession, last>>
    /\ SessionFrame

\* ClearCurrentUser: store.currentSession = nil under store.mu.
ClearCachedSession(k) ==
    /\ calls[k].pc = "clear"
    /\ currentSession' = NoSession
    /\ calls' = [calls EXCEPT ![k] = IdleCall]
    /\ UNCHANGED <<sessions, nextSession, last>>
    /\ SessionFrame

\* CourseHandler.Create: without a current user the request is refused,
\* with one the directory is imported for that user.
CourseHandlerCreate(relativePath) ==
    IF GetCurrentUser = NoUser
    THEN /\ last' = [op |-> "Create", err |-> "You must be logged in to create courses"]
         /\ UNCHANGED <<envVars, accountVars, taskVars, courses, modules, content_items,
                        user_progress, nextCourse, clock>>
    ELSE /\ ImportCourse(relativePath, GetCurrentUser)
         /\ UNCHANGED taskVars

\* The queries of the session store that the storage may fail.
SessionFaultSets ==
    {{}} \cup {{<<q, NoKey>>} :
                 q \in {"DeleteAllSessions", "CreateSession", "DeleteSession",
                        "GetActiveSession"}}

\* At most MaxSessions sessions are created.
MaxSessions == 3

\* The server starts on an empty database, the courses directory holds one
\* course; loadActiveSession is on its way.
InitSession ==
    /\ fs = StoreListing
    /\ basePath = <<"/", "courses">>
    /\ faults = {}
    /\ courses = {}
    /\ modules = {}
    /\ content_items = {}
    /\ user_progress = {}
    /\ profiles = {}
    /\ nextProfile = 0
    /\ sessions = {}
    /\ nextSession = 0
    /\ currentSession = NoSession
    /\ calls = [NoCalls EXCEPT ![0] = [op |-> "loadActiveSession", pc |-> "load"]]
    /\ nextCourse = 0
    /\ clock = 0
    /\ last = [op |-> "none", err |-> ""]
    /\ tasks = {}
    /\ jobs = <<>>
    /\ reader = NoReader

\* Profiles are created, selected and deleted, one request selects a profile
\* at a time, courses are created for the current user, the database is reset,
\* and DeleteAllSessions fails or works.
NextSession ==
    \/ \E name \in {"", "a"} :
          /\ nextProfile < MaxUsers
          /\ CreateProfile(name)
    \/ \E u \in {NoUser} \cup (1..nextProfile) : DeleteProfileByID(u)
    \/ \E u \in 1..MaxUsers :
          /\ nextSession < MaxSessions
          /\ SelectProfile(1, u)
    \/ \E k \in 0..1 : LoadActiveSessionQuery(k)
    \/ \E k \in 0..1 : DeleteAllSessions(k)
    \/ \E k \in 0..1 : ClearAllSessionsCache(k)
    \/ \E k \in 0..1 : CreateSession(k)
    \/ \E k \in 0..1 : CacheSession(k)
    \/ \E f \in {{}, {<<"DeleteAllSessions", NoKey>>}} : StorageChange(f)
    \/ /\ nextCourse < MaxStoreCourses
       /\ CourseHandlerCreate(<<"go">>)
    \/ \E id \in 1..nextCourse : DeleteCourse(id)
    \/ FactoryResetDatabase

SpecSession == InitSession /\ [][NextSession]_vars

\* The calls of the session store alone, over the profiles Users.
InitSessionCalls ==
    /\ fs = <<>>
    /\ basePath = <<"/", "courses">>
    /\ faults = {}
    /\ courses = {}
    /\ modules = {}
    /\ content_items = {}
    /\ user_progress = {}
    /\ profiles = Users
    /\ nextProfile = MaxUsers
    /\ sessions = {}
    /\ nextSession = 0
    /\ currentSession = NoSession
    /\ calls = [NoCalls EXCEPT ![0] = [op |-> "loadActiveSession", pc |-> "load"]]
    /\ nextCourse = 0
    /\ clock = 0
    /\ last = [op |-> "none", err |-> ""]
    /\ tasks = {}
    /\ jobs = <<>>
    /\ reader = NoReader

NextSessionCalls ==
    \/ \E k \in 1..MaxCalls, u \in Users :
          /\ nextSession < MaxSessions
          /\ SelectProfile(k, u)
    \/ \E k \in 1..MaxCalls : ClearCurrentUser(k)
    \/ \E k \in 1..MaxCalls : ClearAllSessions(k)
    \/ \E k \in 0..MaxCalls : LoadActiveSessionQuery(k)
    \/ \E k \in 0..MaxCalls : DeleteAllSessions(k)
    \/ \E k \in 0..MaxCalls : ClearAllSessionsCache(k)
    \/ \E k \in 0..MaxCalls : CreateSession(k)
    \/ \E k \in 0..MaxCalls : CacheSession(k)
    \/ \E k \in 0..MaxCalls : ReadCurrentSession(k)
    \/ \E k \in 0..MaxCalls : DeleteSession(k)
    \/ \E k \in 0..MaxCalls : ClearCachedSession(k)
    \/ \E f \in SessionFaultSets : StorageChange(f)

SpecSessionCalls == InitSessionCalls /\ [][NextSessionCalls]_vars

\* C23: once the calls of the session store have returned, the sessions table
\* holds at most one row, and the cached current session, if any, is that row.
C23_OneSession ==
    SessionCallsIdle =>
       /\ Cardinality(sessions) <= 1
       /\ currentSession # NoSession => currentSession \in sessions

\* C29: once the calls of the session store have returned, GetCurrentUser
\* returns the nil identifier or the identifier of a profile that exists.
C29_CurrentUserExists ==
    SessionCallsIdle => GetCurrentUser \in {NoUser} \cup profiles


\* A batch import runs while the database is reset: the courses directory
\* holds the course go, user 1 imports it in a batch of at most MaxBatch
\* inputs.
InitReset ==
    /\ fs = <<Dir("go", TRUE, <<File("a")>>)>>
    /\ basePath = <<"/", "courses">>
    /\ faults = {}
    /\ courses = {}
    /\ modules = {}
    /\ content_items = {}
    /\ user_progress = {}
    /\ profiles = Users
    /\ nextProfile = MaxUsers
    /\ sessions = {}
    /\ nextSession = 0
    /\ currentSession = NoSession
    /\ calls = NoCalls
    /\ nextCourse = 0
    /\ clock = 0
    /\ last = [op |-> "none", err |-> ""]
    /\ tasks = {}
    /\ jobs = <<>>
    /\ reader = NoReader

NextReset ==
    \/ \E l \in BatchInputLists(MaxBatch) :
          /\ Len(jobs) < MaxTasks
          /\ BatchImport([Courses |-> l, userID |-> 1])
    \/ \E id \in 1..Len(jobs) : JobStep(id)
    \/ FactoryResetDatabase

SpecReset == InitReset /\ [][NextReset]_vars

\* C24: when FactoryResetDatabase has returned without an error the task
\* registry holds no task, whatever the age and the status of the tasks were.
C24_RegistryEmptied ==
    (last.op = "FactoryResetDatabase" /\ last.err = "") =>
       \A t \in tasks : ~t.registered


\* strings.TrimSpace(title) == "" for the titles of the requests.
IsBlank(title) == title \in {"", " "}

\* CourseService.UpdateCourseMetadata: a blank title is refused; UpdateCourse
\* sets title = $2 and description = $3 of the row, where $3 is
\* sql.NullString{String: description} with Valid left false, and fails for
\* an id of no row; the result is GetCourse of the id.
UpdateCourseMetadata(courseID, title, description) ==
    /\ IF IsBlank(title)
       THEN /\ last' = [op |-> "UpdateCourseMetadata", err |-> "course title cannot be empty"]
            /\ UNCHANGED courses
       ELSE IF \A c \in courses : c.id # courseID
       THEN /\ last' = [op |-> "UpdateCourseMetadata", err |-> "error updating course"]
            /\ UNCHANGED courses
       ELSE /\ courses' =
                 {IF c.id = courseID
                  THEN [c EXCEPT !.title = title,
                                 !.description =
                                    StoredNullString([String |-> description,
                                                      Valid |-> FALSE])]
                  ELSE c : c \in courses}
            /\ last' = [op |-> "UpdateCourseMetadata", course |-> courseID,
                        title |-> title, description |-> description,
                        err |-> GetCourseErr(courseID),
                        before |-> GetCourse(courseID),
                        res |-> GetCourseIn(courses', modules, content_items, courseID)]
    /\ UNCHANGED <<envVars, accountVars, taskVars, modules, content_items, user_progress,
                   nextCourse, clock>>

\* The titles and descriptions of the update requests.
MetadataTitles == {"", " ", "t2"}
MetadataDescriptions == {"", "d"}

\* Courses are created, with a description or without, their metadata is
\* updated, they are deleted.
MetadataCourseInputs ==
    {[InputCourse("course", sizes) EXCEPT !.Description = d] :
        sizes \in {<<>>, <<1>>, <<1, 2>>}, d \in MetadataDescriptions}

NextMetadata ==
    \/ \E course \in MetadataCourseInputs :
          /\ nextCourse < MaxStoreCourses
          /\ CreateCourse(course, "CreateCourse", course)
          /\ UNCHANGED taskVars
    \/ \E id \in 1..(nextCourse + 1), title \in MetadataTitles,
          description \in MetadataDescriptions :
          UpdateCourseMetadata(id, title, description)
    \/ \E c \in courses : DeleteCourse(c.id)

SpecMetadata == Init /\ [][NextMetadata]_vars

\* C25: when UpdateCourseMetadata has returned without an error, the row of
\* the course and the course returned have the given title and the given
\* description, and the relative path, the modules and the content items of
\* the course are those of before.
C25_MetadataStored ==
    (last.op = "UpdateCourseMetadata" /\ last.err = "") =>
       /\ \E c \in courses : /\ c.id = last.course
                             /\ c.title = last.title
                             /\ c.description.String = last.description
       /\ last.res.Title = last.title
       /\ last.res.Description = last.description
       /\ last.res.RelativePath = last.before.RelativePath
       /\ last.res.Modules = last.before.Modules


\* The inserts of the next course that the storage may fail: of one of its
\* first two modules or of one of their first two content items.
WriteFaultSets ==
    {{}}
    \cup {{<<"CreateModule", ModuleID(nextCourse + 1, i)>>} : i \in 1..2}
    \cup {{<<"CreateContentItem", ContentItemID(nextCourse + 1, i, j)>>} :
             i \in 1..2, j \in 1..2}

\* The courses directory holds the course go with the modules m, of two
\* files, and n, of one file.
PartialListing ==
    <<Dir("go", TRUE, <<Dir("m", TRUE, <<File("a"), File("b")>>),
                        Dir("n", TRUE, <<File("c")>>)>>)>>

InitPartial ==
    /\ fs = PartialListing
    /\ basePath = <<"/", "courses">>
    /\ faults = {}
    /\ courses = {}
    /\ modules = {}
    /\ content_items = {}
    /\ user_progress = {}
    /\ profiles = Users
    /\ nextProfile = MaxUsers
    /\ sessions = {}
    /\ nextSession = 0
    /\ currentSession = NoSession
    /\ calls = NoCalls
    /\ nextCourse = 0
    /\ clock = 0
    /\ last = [op |-> "none", err |-> ""]
    /\ tasks = {}
    /\ jobs = <<>>
    /\ reader = NoReader

\* Courses are created and imported in a batch while inserts fail.
NextPartial ==
    \/ \E f \in WriteFaultSets : StorageChange(f)
    \/ \E course \in MetadataCourseInputs :
          /\ nextCourse < MaxStoreCourses
          /\ CreateCourse(course, "CreateCourse", course)
          /\ UNCHANGED taskVars
    \/ \E l \in {<<>>, <<[Title |-> "", RelativePath |-> <<"go">>, BasePath |-> <<>>]>>} :
          /\ Len(jobs) < MaxTasks
          /\ BatchImport([Courses |-> l, userID |-> 1])
    \/ \E id \in 1..Len(jobs) : JobStep(id)

SpecPartial == InitPartial /\ [][NextPartial]_vars

\* The insert of a module or of a content item failed in the last call.
InsertFailed(l) == l.err \in {"failed to create module", "failed to create content item"}

\* C26: when CreateCourse has returned the error of an insert of a module or
\* of a content item, the course row is in the table together with exactly
\* the modules and the content items whose inserts came before the one that
\* failed; and the pass of BatchImportCourses that got this error adds one
\* error and no imported course, while the course row is in the table.
C26_NoRollback ==
    /\ [](InsertFailed(last) =>
            /\ \E c \in courses : c.id = last.id
            /\ {m \in modules : m.course_id = last.id}
                  = {r \in NewModuleRows(last.input, last.id) :
                        InsertBefore(<<r.id[2], 0>>, last.failedAt)}
            /\ {c \in content_items : c.module_id[1] = last.id}
                  = {r \in NewContentItemRows(last.input, last.id) :
                        InsertBefore(<<r.id[2], r.id[3]>>, last.failedAt)})
    /\ [][\A id \in 1..Len(jobs) :
            (AtImport(id) /\ jobs'[id] # jobs[id] /\ last' # last /\ InsertFailed(last'))
               => /\ Len(jobs'[id].errors) = Len(jobs[id].errors) + 1
                  /\ jobs'[id].imported = jobs[id].imported
                  /\ \E c \in courses' : c.id = last'.id]_vars

\* C26 witness: an import of the batch failed at the second content item of
\* the first module: the course row, the module and its first item are in
\* the tables, and the batch has the error.
C26_Witness ==
    /\ last.op = "ImportCourse"
    /\ last.err = "failed to create content item"
    /\ last.failedAt = <<1, 2>>
    /\ \E c \in courses : c.id = last.id
    /\ \E c \in content_items : c.module_id[1] = last.id
    /\ \E id \in 1..Len(jobs) : Len(jobs[id].errors) = 1 /\ jobs[id].imported = <<>>


\* The scan after imports: the courses directory holds the directories go
\* and rust, with test-course or without; directories are imported one by one
\* and in batches, by user 1, course rows are deleted, the directory is
\* scanned.  Every directory that can be imported lies immediately below the
\* base path, and the course row of an import has its name for title.
OmitListings ==
    {<<Dir("go", TRUE, <<File("a")>>), Dir("rust", TRUE, <<File("a")>>)>> \o tc :
        tc \in {<<>>, <<Dir("test-course", TRUE, <<File("a")>>)>>}}

\* The base path is one of BasePaths or ".", what GetCoursesDirectory returns
\* when no variable of the environment is set; a directory is asked for by
\* its name or by an absolute path.
OmitBasePaths == BasePaths \cup {<<".">>}

OmitImportInputs == ImportInputs \cup {<<"/", "app", "go">>}

InitOmit ==
    /\ fs \in OmitListings
    /\ basePath \in OmitBasePaths
    /\ faults = {}
    /\ courses = {}
    /\ modules = {}
    /\ content_items = {}
    /\ user_progress = {}
    /\ profiles = Users
    /\ nextProfile = MaxUsers
    /\ sessions = {}
    /\ nextSession = 0
    /\ currentSession = NoSession
    /\ calls = NoCalls
    /\ nextCourse = 0
    /\ clock = 0
    /\ last = [op |-> "none", err |-> ""]
    /\ tasks = {}
    /\ jobs = <<>>
    /\ reader = NoReader

NextOmit ==
    \/ \E d \in OmitImportInputs :
          /\ nextCourse < MaxScanCourses
          /\ ImportCourse(d, 1)
          /\ UNCHANGED taskVars
    \/ \E l \in BatchInputLists(1) :
          /\ Len(jobs) < MaxTasks
          /\ nextCourse < MaxScanCourses
          /\ BatchImport([Courses |-> l, userID |-> 1])
    \/ \E id \in 1..Len(jobs) : JobStep(id)
    \/ \E c \in courses : DeleteCourse(c.id)
    \/ ScanNewCourses

SpecOmit == InitOmit /\ [][NextOmit]_vars

\* C30: a ScanNewCourses returns no directory of the base path that a course
\* row was imported from, by ImportCourse or by BatchImportCourses, as long
\* as the row exists, whatever form the row's relative path has.
C30_ImportedOmitted ==
    last.op = "ScanNewCourses" =>
       \A c \in courses, n \in 1..Len(last.res) : last.res[n].Name # c.title

====
